---- MODULE Spec2Model ----
(***************************************************************************)
(* Raven Fleet: the inventory store (src/src/fleet/store.ts), the          *)
(* bootstrap executor and the ping command, as state machines.             *)
(*                                                                         *)
(* Strings that the code trims, lower-cases or tests for a prefix are      *)
(* sequences of one-character strings, so that trim(), toLowerCase() and   *)
(* startsWith() are computed and not assumed.                              *)
(***************************************************************************)
EXTENDS Integers, Sequences, FiniteSets, TLC

\* ------------------------------------------------------------------------
\* Bounds of the model
\* ------------------------------------------------------------------------

\* store operations the processes issue in all
MaxOps == 2

\* clock ticks that make up the staleness ceiling of the lock (stale: 30_000)
StaleTicks == 1

\* steps of a bootstrap plan
MaxSteps == 3

\* commands of one bootstrap step
MaxCmds == 2

\* ------------------------------------------------------------------------
\* Program constants
\* ------------------------------------------------------------------------

\* FLEET_STORE_LOCK_OPTIONS.retries.retries
Retries == 10

\* validatePort upper limit
MaxPort == 65535

\* validateNodeName length limit
MaxNameLen == 100

\* the default ssh port
DefaultPort == 22

Procs == {"p1", "p2"}

NoProc == "none"

\* an optional field is a sequence of length at most one: absent (undefined)
\* or holding its value
Undef == <<>>

Some(v) == <<v>>

\* the inventory file: whether nodes.json exists, and the nodes array of its
\* JSON content (writers always write schemaVersion 1)
Missing == [exists |-> FALSE, nodes |-> <<>>]

FileOf(nodes) == [exists |-> TRUE, nodes |-> nodes]

\* ------------------------------------------------------------------------
\* Strings
\* ------------------------------------------------------------------------

\* String.prototype.startsWith for a one-character prefix
StartsWith(s, c) == Len(s) > 0 /\ s[1] = c

RECURSIVE TrimStart(_)
TrimStart(s) ==
    IF Len(s) > 0 /\ s[1] = " " THEN TrimStart(Tail(s)) ELSE s

RECURSIVE TrimEnd(_)
TrimEnd(s) ==
    IF Len(s) > 0 /\ s[Len(s)] = " " THEN TrimEnd(SubSeq(s, 1, Len(s) - 1)) ELSE s

\* String.prototype.trim
Trim(s) == TrimEnd(TrimStart(s))

LowerOf(c) ==
    CASE c = "A" -> "a"
      [] c = "B" -> "b"
      [] c = "Darwin" -> "darwin"
      [] c = "Linux" -> "linux"
      [] c = "FreeBSD" -> "freebsd"
      [] OTHER -> c

\* String.prototype.toLowerCase
ToLowerCase(s) == [i \in 1..Len(s) |-> LowerOf(s[i])]

\* the characters nodeNameRegex accepts, as far as the model's alphabet goes
NameChars == {"a", "b", "A", "B", "1", "-", "_"}

\* nodeNameRegex = /^[a-zA-Z0-9_-]+$/
nodeNameRegex(s) == Len(s) > 0 /\ \A i \in 1..Len(s) : s[i] \in NameChars

\* ------------------------------------------------------------------------
\* Inventory store: validation and pure helpers
\* ------------------------------------------------------------------------

normalizeNodeName(name) == ToLowerCase(Trim(name))

\* TRUE when validateNodeName does not throw
validateNodeName(name) ==
    /\ ~(name = <<>> \/ Trim(name) = <<>>)
    /\ nodeNameRegex(name)
    /\ ~(Len(name) > MaxNameLen)

\* TRUE when validateHost does not throw
validateHostNonEmpty(host) == ~(host = <<>> \/ Trim(host) = <<>>)

validateHost(host) ==
    /\ ~(host = <<>> \/ Trim(host) = <<>>)
    /\ ~StartsWith(host, "-")

\* TRUE when validatePort does not throw
validatePort(port) == port \in Int /\ ~(port < 1 \/ port > MaxPort)

\* TRUE when the user check of addNode / updateNode does not throw
validateUser(user) == ~(user = <<>> \/ Trim(user) = <<>>)

\* the nodes of createEmptyFleetStore()
createEmptyFleetStore == <<>>

\* FleetNodeSchema: the refinements a stored record can fail
FleetNodeSchema(n) ==
    /\ Len(n.name) >= 1 /\ Len(n.name) <= MaxNameLen /\ nodeNameRegex(n.name)
    /\ Len(n.host) >= 1 /\ ~StartsWith(n.host, "-")
    /\ n.port \in 1..MaxPort
    /\ Len(n.user) >= 1

\* FleetStoreSchema.safeParse(value).success for the nodes of a file
FleetStoreSchema(nodes) == \A i \in 1..Len(nodes) : FleetNodeSchema(nodes[i])

\* readJsonFile + safeParse as every store function does it: the store the
\* function works on, given the content of the inventory file
ReadStore(f) ==
    IF ~f.exists THEN createEmptyFleetStore
    ELSE IF FleetStoreSchema(f.nodes) THEN f.nodes ELSE createEmptyFleetStore

\* Array.prototype.findIndex on the normalized name; 0 stands for -1
FindIndexExact(nodes, name) ==
    LET hits == {i \in 1..Len(nodes) : Trim(nodes[i].name) = Trim(name)}
    IN IF hits = {} THEN 0 ELSE CHOOSE i \in hits : \A j \in hits : i <= j

FindIndex(nodes, name) ==
    LET hits == {i \in 1..Len(nodes) :
                    normalizeNodeName(nodes[i].name) = normalizeNodeName(name)}
    IN IF hits = {} THEN 0 ELSE CHOOSE i \in hits : \A j \in hits : i <= j

\* the FleetNode that addNode builds from its input and a generated id
NewNode(id, input) ==
    [id |-> id,
     name |-> Trim(input.name),
     host |-> Trim(input.host),
     port |-> input.port,
     user |-> Trim(input.user),
     trusted |-> FALSE,
     os |-> Undef,
     arch |-> Undef,
     installed |-> Undef,
     lastSeen |-> Undef,
     serviceStatus |-> Undef]

\* an UpdateNodeInput with no field supplied
NoUpdates ==
    [host |-> Undef, port |-> Undef, user |-> Undef, trusted |-> Undef,
     os |-> Undef, arch |-> Undef, installed |-> Undef, lastSeen |-> Undef,
     serviceStatus |-> Undef]

\* the merge of updateNode: the spread copies host, port, user, trusted,
\* installed and lastSeen when supplied; os, arch and serviceStatus are not
\* among the spread fields
MergeUpdates(existing, updates) ==
    [existing EXCEPT
        !.host = IF updates.host # Undef THEN Trim(updates.host[1]) ELSE @,
        !.port = IF updates.port # Undef THEN updates.port[1] ELSE @,
        !.user = IF updates.user # Undef THEN Trim(updates.user[1]) ELSE @,
        !.trusted = IF updates.trusted # Undef THEN updates.trusted[1] ELSE @,
        !.installed = IF updates.installed # Undef THEN updates.installed ELSE @,
        !.lastSeen = IF updates.lastSeen # Undef THEN updates.lastSeen ELSE @]

\* TRUE when the validation at the head of updateNode does not throw
validateUpdates(updates) ==
    /\ updates.host # Undef => validateHost(updates.host[1])
    /\ updates.port # Undef => validatePort(updates.port[1])
    /\ updates.user # Undef => validateUser(updates.user[1])

\* Array.prototype.splice(index, 1)
Splice(nodes, index) ==
    [i \in 1..(Len(nodes) - 1) |-> IF i < index THEN nodes[i] ELSE nodes[i + 1]]

\* ------------------------------------------------------------------------
\* State
\* ------------------------------------------------------------------------

VARIABLES
    file,           \* content of nodes.json: Missing or the sequence of nodes
    lock,           \* process that holds nodes.json.lock, or NoProc
    lockAge,        \* ticks since the lock was taken
    pc,             \* per process: where it is in its store operation
    op,             \* per process: the operation and its input
    snap,           \* per process: the store it is about to write back
    attempts,       \* per process: retries of lockfile.lock used so far
    res,            \* per process: outcome of its last operation
    opsDone,        \* operations started so far
    nextId,         \* next identifier crypto.randomUUID() hands out
    staleReclaimed, \* history: a held lock was reclaimed as stale
    ackNames,       \* history: names successful adds less successful removes left
    sawName,        \* history, per process: its add read a file holding its name
    wiped,          \* history: a locked read discarded a file that failed the schema
    wrote,          \* history, per process: its operation has written the file
    xpc,            \* executeBootstrapPlan: where the executor is
    plan,           \* the BootstrapPlan being executed
    dryRun,         \* options.dryRun
    stepIdx,        \* index of the step the loop is at
    cmdIdx,         \* index of the command executeStep is at
    stepResults,    \* the stepResults array
    sent,           \* history: the commands handed to sshExec, with their results
    progress,       \* history: the calls of options.onProgress
    xres,           \* the BootstrapResult: "none", "success" or "failed"
    fileAtStart,    \* history: the inventory file when the executor or ping started
    kh,             \* the entries of the fleet known_hosts file, in file order
    ppc,            \* fleetPingCommand: where the command is
    pname,          \* the node name given to ping
    pnode,          \* the node getNode returned, if any
    trustHostKeyChange, \* opts.trustHostKeyChange
    existingKey,    \* the entry getHostKey returned, if any
    scan,           \* the result of sshKeyscan, once it is in
    toPin,          \* the keys the pin loop has still to pin
    hostKeyStatus,  \* hostKeyStatus
    sshCalls,       \* history: the sshExec calls of ping
    pres,           \* outcome of ping: "none", "ok" or "failed"
    khAtStart,      \* history: the known_hosts entries when ping started
    tpc,            \* sshExec / sshKeyscan: "idle", "running" or "resolved"
    tfn,            \* which of the two transport functions was called
    thost,          \* the host it was called with
    spawned,        \* child processes spawned by the call
    timedOut,       \* sshExec: the local timedOut
    resolved,       \* the local resolved
    resolves,       \* history: results handed to the caller by the call
    tresult,        \* the result the caller got, if any
    timer,          \* the timeout timer: "none", "armed", "fired" or "cleared"
    child,          \* the child process: "none", "nospawn", "alive", "exited", "killed"
    childCode,      \* the exit code of a child that exited by itself
    exitSeen,       \* the 'exit' event was delivered
    tevents,        \* history: the events the call has handled, in order
    tcalls,         \* transport calls made so far
    bpc,            \* bootstrap: where bootstrap() and gatherNodeInfo are
    bnode,          \* options.node: its name and its trusted flag
    bdryRun,        \* options.dryRun
    nodeInfo,       \* the fact sheet gatherNodeInfo is filling in
    probeFailed,    \* history: a preflight round trip failed
    preModes,       \* history: the strictHostKeyChecking modes preflight used
    bres,           \* "none", or "failed" when bootstrap returned before the executor
    dpc,            \* runNodeDiagnostics: "idle" or "done"
    dcalls,         \* history: the sshExec calls of runNodeDiagnostics
    donline,        \* the online flag of the NodeDiagnostics
    diag,           \* the NodeDiagnostics runNodeDiagnostics returned
    khFile,         \* the known_hosts file: Undef, or Some(its lines)
    top,            \* history: the last host-keys operation
    targ,           \* history: its argument
    tbefore,        \* history: the known_hosts file before it
    tgot,           \* what the last getHostKey returned
    tchanged,       \* what the last hasHostKeyChanged returned
    tops,           \* host-keys operations made so far
    rtKind,         \* round trip: "none", "entries" or "text"
    rtIn,           \* the entries or the text it started from
    rtText,         \* the text formatKnownHosts gave
    rtOut,          \* the entries parseKnownHosts read back from rtText
    rtAgain,        \* formatKnownHosts(parseKnownHosts(rtText))
    bppc,           \* plan builder: "idle", "built" or "threw"
    buildArgs,      \* the arguments buildBootstrapPlan was called with
    built,          \* the plan it returned, Undef if none
    marks,          \* the [SKIP] marks formatPlan gave, one per step
    spc,            \* status check: "idle", "probing" or "done"
    svia,           \* who runs it: "cli" (fleetStatusCommand) or "gateway"
    snode,          \* the node getNode returned to it, if any
    disk,           \* what the inventory path holds, as bytes on disk
    dir,            \* whether the fleet directory exists
    tmpf,           \* per writer: what its temporary file holds
    wpc,            \* per writer: where it is in writeJsonFile
    wval,           \* per writer: the store it writes
    lpc,            \* reader: "idle" or "done"
    lfn,            \* the function the reader called last
    lgot,           \* what it returned
    lseen,          \* history: what the inventory path held when it read
    bcmd,           \* fleetBootstrapCommand: "none", "notfound", "refused", "accepted"
    pings,          \* ping commands that have ended
    prev,           \* history: how the ping before this one ended, the keys it pinned
    qfile,          \* the known_hosts file the two pinning processes share
    qpc,            \* per pinning process: "idle", "loaded", "done"
    qent,           \* per pinning process: the entry it pins
    qsnap,          \* per pinning process: the entries loadKnownHosts gave it
    qafter,         \* history, per pinning process: whose save its load came after
    qlast,          \* history: the process whose save came last
    serviceOut      \* history: stdout of the service query of preflight, if sent

storeVars == <<file, lock, lockAge, pc, op, snap, attempts, res, opsDone,
               nextId, staleReclaimed, ackNames, sawName, wiped, wrote>>

execVars == <<xpc, plan, dryRun, stepIdx, cmdIdx, stepResults, sent, progress,
              xres, fileAtStart>>

pingVars == <<kh, ppc, pname, pnode, trustHostKeyChange, existingKey, scan,
              toPin, hostKeyStatus, sshCalls, pres, khAtStart>>

transportVars == <<tpc, tfn, thost, spawned, timedOut, resolved, resolves,
                   tresult, timer, child, childCode, exitSeen, tevents, tcalls>>

bootVars == <<bpc, bnode, bdryRun, nodeInfo, probeFailed, preModes, bres,
              serviceOut>>

diagVars == <<dpc, dcalls, donline, diag>>

trustVars == <<khFile, top, targ, tbefore, tgot, tchanged, tops>>

\* the variables of the transport, bootstrap and diagnostics machines, and
\* with those of the known_hosts file all that the store, the executor and
\* ping leave alone
allButTrustVars == <<transportVars, bootVars, diagVars>>

rtVars == <<rtKind, rtIn, rtText, rtOut, rtAgain>>

\* the variables of the machines that apply formatKnownHosts and
\* parseKnownHosts to each other, that build plans and that check the status
\* of a node
planVars == <<bppc, buildArgs, built, marks>>

statusVars == <<spc, svia, snode>>

diskVars == <<disk, dir, tmpf, wpc, wval, lpc, lfn, lgot, lseen>>

\* the variables of the machines added last
onboardVars == <<bcmd, pings, prev>>

pinnerVars == <<qfile, qpc, qent, qsnap, qafter, qlast>>

lateVars == <<diskVars, onboardVars, pinnerVars>>

extraVars == <<rtVars, planVars, statusVars, lateVars>>

restVars == <<allButTrustVars, trustVars, extraVars>>

vars == <<storeVars, execVars, pingVars, restVars>>

\* ------------------------------------------------------------------------
\* Inputs of the store operations
\* ------------------------------------------------------------------------

NoOp == [kind |-> "none", name |-> <<>>, host |-> <<>>, port |-> 0,
         user |-> <<>>, updates |-> NoUpdates]

AddOp(name, host, port, user) ==
    [kind |-> "add", name |-> name, host |-> host, port |-> port,
     user |-> user, updates |-> NoUpdates]

UpdateOp(name, updates) ==
    [kind |-> "update", name |-> name, host |-> <<>>, port |-> 0,
     user |-> <<>>, updates |-> updates]

RemoveOp(name) ==
    [kind |-> "remove", name |-> name, host |-> <<>>, port |-> 0,
     user |-> <<>>, updates |-> NoUpdates]

\* the update the bootstrap executor sends after a successful plan
ExecutorUpdates(osv, archv, version) ==
    [NoUpdates EXCEPT !.os = Some(osv), !.arch = Some(archv),
                      !.installed =
                          Some([version |-> version, installedAt |-> "now"]),
                      !.lastSeen = Some("now"),
                      !.serviceStatus = Some("running")]

AddInputs ==
    {AddOp(n, <<"h">>, DefaultPort, <<"u">>) : n \in {<<"a">>, <<"A">>, <<"b">>}}
    \cup {AddOp(<<"a">>, <<" ", "-", "x">>, DefaultPort, <<"u">>),
          AddOp(<<"a">>, <<"-", "x">>, DefaultPort, <<"u">>),
          AddOp(<<"a">>, <<" ">>, DefaultPort, <<"u">>),
          AddOp(<<"a">>, <<"h">>, 0, <<"u">>),
          AddOp(<<"a">>, <<"h">>, DefaultPort, <<" ">>),
          AddOp(<<"a", " ", "b">>, <<"h">>, DefaultPort, <<"u">>),
          AddOp(<<>>, <<"h">>, DefaultPort, <<"u">>),
          AddOp([i \in 1..(MaxNameLen + 1) |-> "a"], <<"h">>, DefaultPort, <<"u">>),
          AddOp(<<"a">>, <<>>, DefaultPort, <<"u">>),
          AddOp(<<"a">>, <<"h">>, MaxPort + 1, <<"u">>),
          AddOp(<<"a">>, <<"h">>, DefaultPort, <<>>)}

UpdateInputs ==
    {UpdateOp(<<"A">>, u) :
        u \in {[NoUpdates EXCEPT !.host = Some(<<" ", "-", "x">>)],
               [NoUpdates EXCEPT !.host = Some(<<"-", "x">>)],
               [NoUpdates EXCEPT !.host = Some(<<>>)],
               [NoUpdates EXCEPT !.port = Some(0)],
               [NoUpdates EXCEPT !.port = Some(MaxPort + 1)],
               [NoUpdates EXCEPT !.user = Some(<<>>)],
               [NoUpdates EXCEPT !.lastSeen = Some("now")]}}

RemoveInputs == {RemoveOp(<<"A">>)}

\* ------------------------------------------------------------------------
\* Inventory store: the steps of addNode, updateNode and removeNode
\* ------------------------------------------------------------------------

\* the checks a store function makes before it touches the file
ValidOp(o) ==
    CASE o.kind = "add" ->
            /\ validateNodeName(o.name)
            /\ validateHost(o.host)
            /\ validatePort(o.port)
            /\ validateUser(o.user)
      [] o.kind = "update" -> validateUpdates(o.updates)
      [] OTHER -> TRUE

\* a process calls addNode, updateNode or removeNode: validation, then
\* withFileLock
BeginOp(p) ==
    /\ UNCHANGED <<execVars, pingVars, restVars>>
    /\ pc[p] \in {"idle", "done"}
    /\ opsDone < MaxOps
    /\ \E o \in AddInputs \cup UpdateInputs \cup RemoveInputs :
        /\ opsDone' = opsDone + 1
        /\ attempts' = [attempts EXCEPT ![p] = 0]
        /\ sawName' = [sawName EXCEPT ![p] = FALSE]
        /\ wrote' = [wrote EXCEPT ![p] = FALSE]
        /\ IF ValidOp(o)
           THEN /\ op' = [op EXCEPT ![p] = o]
                /\ pc' = [pc EXCEPT ![p] = "ensure"]
                /\ res' = [res EXCEPT ![p] = "pending"]
           ELSE /\ op' = [op EXCEPT ![p] = NoOp]
                /\ pc' = [pc EXCEPT ![p] = "done"]
                /\ res' = [res EXCEPT ![p] = "invalid"]
    /\ UNCHANGED <<file, lock, lockAge, snap, nextId, staleReclaimed, ackNames,
                   wiped>>

\* ensureJsonFile: fs.promises.access
EnsureAccess(p) ==
    /\ UNCHANGED <<execVars, pingVars, restVars>>
    /\ pc[p] = "ensure"
    /\ pc' = [pc EXCEPT ![p] = IF file.exists THEN "lock" ELSE "ensureWrite"]
    /\ UNCHANGED <<file, lock, lockAge, op, snap, attempts, res, opsDone,
                   nextId, staleReclaimed, ackNames, sawName, wiped, wrote>>

\* ensureJsonFile: writeJsonFile(filePath, fallback), after access failed
EnsureWrite(p) ==
    /\ UNCHANGED <<execVars, pingVars, restVars>>
    /\ pc[p] = "ensureWrite"
    /\ file' = FileOf(createEmptyFleetStore)
    /\ wrote' = [wrote EXCEPT ![p] = TRUE]
    /\ pc' = [pc EXCEPT ![p] = "lock"]
    /\ UNCHANGED <<lock, lockAge, op, snap, attempts, res, opsDone,
                   nextId, staleReclaimed, ackNames, sawName, wiped>>

\* the retry policy of lockfile.lock: whether a failed attempt is retried,
\* given the retries used so far
RetryLeftForever(used) == TRUE

RetryLeft(used) == used < Retries

\* where withFileLock goes once fn has returned or thrown: the finally
\* releases the lock either way
FinallyPcLeak(threw) == IF threw THEN "done" ELSE "release"

FinallyPc(threw) == "release"

\* a held lock older than the staleness ceiling counts as abandoned
IsStale == lock # NoProc /\ lockAge > StaleTicks

\* whether an attempt at the lock succeeds: the lock directory is absent, or
\* it is stale and is removed
LockAvailableAlways == TRUE

LockAvailable == lock = NoProc \/ IsStale

\* lockfile.lock(filePath, FLEET_STORE_LOCK_OPTIONS): one attempt
AcquireLock(p) ==
    /\ UNCHANGED <<execVars, pingVars, restVars>>
    /\ pc[p] = "lock"
    /\ IF LockAvailable
       THEN /\ lock' = p
            /\ lockAge' = 0
            /\ staleReclaimed' = (staleReclaimed \/ IsStale)
            /\ pc' = [pc EXCEPT ![p] = "read"]
            /\ attempts' = [attempts EXCEPT ![p] = 0]
            /\ UNCHANGED <<res, op>>
       ELSE IF RetryLeft(attempts[p])
       THEN /\ attempts' = [attempts EXCEPT ![p] = @ + 1]
            /\ UNCHANGED <<lock, lockAge, staleReclaimed, pc, res, op>>
       ELSE /\ res' = [res EXCEPT ![p] = "ELOCKED"]
            /\ pc' = [pc EXCEPT ![p] = "done"]
            /\ op' = [op EXCEPT ![p] = NoOp]
            /\ UNCHANGED <<lock, lockAge, staleReclaimed, attempts>>
    /\ UNCHANGED <<file, snap, opsDone, nextId, ackNames, sawName, wiped, wrote>>

\* the body of fn up to its write: readJsonFile, safeParse, and the
\* mutation in memory; a throw or an early return goes to the release
ReadAndApply(p) ==
    /\ UNCHANGED <<execVars, pingVars, restVars>>
    /\ pc[p] = "read"
    /\ LET store == ReadStore(file)
           idx == FindIndex(store, op[p].name)
           raw == file.nodes
       IN /\ sawName' = [sawName EXCEPT ![p] =
                            op[p].kind = "add" /\ FindIndex(raw, op[p].name) # 0]
          /\ CASE op[p].kind = "add" ->
                    IF idx # 0
                    THEN /\ res' = [res EXCEPT ![p] = "duplicate"]
                         /\ pc' = [pc EXCEPT ![p] = FinallyPc(TRUE)]
                         /\ UNCHANGED <<snap, nextId>>
                    ELSE /\ snap' = [snap EXCEPT ![p] =
                                        Append(store, NewNode(nextId, op[p]))]
                         /\ nextId' = nextId + 1
                         /\ pc' = [pc EXCEPT ![p] = "write"]
                         /\ UNCHANGED res
               [] op[p].kind = "update" ->
                    IF idx = 0
                    THEN /\ res' = [res EXCEPT ![p] = "null"]
                         /\ pc' = [pc EXCEPT ![p] = FinallyPc(FALSE)]
                         /\ UNCHANGED <<snap, nextId>>
                    ELSE /\ snap' = [snap EXCEPT ![p] =
                                [store EXCEPT ![idx] =
                                    MergeUpdates(store[idx], op[p].updates)]]
                         /\ pc' = [pc EXCEPT ![p] = "write"]
                         /\ UNCHANGED <<res, nextId>>
               [] OTHER ->
                    IF idx = 0
                    THEN /\ res' = [res EXCEPT ![p] = "false"]
                         /\ pc' = [pc EXCEPT ![p] = FinallyPc(FALSE)]
                         /\ UNCHANGED <<snap, nextId>>
                    ELSE /\ snap' = [snap EXCEPT ![p] = Splice(store, idx)]
                         /\ pc' = [pc EXCEPT ![p] = "write"]
                         /\ UNCHANGED <<res, nextId>>
    /\ wiped' = (wiped \/ (file.exists /\ ~FleetStoreSchema(file.nodes)))
    /\ UNCHANGED <<file, lock, lockAge, op, attempts, opsDone,
                   staleReclaimed, ackNames, wrote>>

\* writeJsonFile(filePath, store): the rename publishes the new content
WriteStore(p) ==
    /\ UNCHANGED <<execVars, pingVars, restVars>>
    /\ pc[p] = "write"
    /\ file' = FileOf(snap[p])
    /\ wrote' = [wrote EXCEPT ![p] = TRUE]
    /\ snap' = [snap EXCEPT ![p] = <<>>]
    /\ res' = [res EXCEPT ![p] = "ok"]
    /\ ackNames' =
        CASE op[p].kind = "add" -> ackNames \cup {normalizeNodeName(op[p].name)}
          [] op[p].kind = "remove" -> ackNames \ {normalizeNodeName(op[p].name)}
          [] OTHER -> ackNames
    /\ pc' = [pc EXCEPT ![p] = FinallyPc(FALSE)]
    /\ UNCHANGED <<lock, lockAge, op, attempts, opsDone, nextId,
                   staleReclaimed, sawName, wiped>>

\* the finally of withFileLock: release(), whose errors are ignored; a lock
\* that was reclaimed meanwhile is no longer this process's to remove
ReleaseLock(p) ==
    /\ UNCHANGED <<execVars, pingVars, restVars>>
    /\ pc[p] = "release"
    /\ lock' = IF lock = p THEN NoProc ELSE lock
    /\ lockAge' = IF lock = p THEN 0 ELSE lockAge
    /\ pc' = [pc EXCEPT ![p] = "done"]
    /\ op' = [op EXCEPT ![p] = NoOp]
    /\ sawName' = [sawName EXCEPT ![p] = FALSE]
    /\ UNCHANGED <<file, snap, attempts, res, opsDone, nextId,
                   staleReclaimed, ackNames, wiped, wrote>>

\* time passes while the lock is held and its holder does not refresh it
Tick ==
    /\ UNCHANGED <<execVars, pingVars, restVars>>
    /\ lock # NoProc
    /\ lockAge <= StaleTicks
    /\ lockAge' = lockAge + 1
    /\ UNCHANGED <<file, lock, pc, op, snap, attempts, res, opsDone,
                   nextId, staleReclaimed, ackNames, sawName, wiped, wrote>>

\* the inventory the processes start from: no file, an empty inventory, or
\* the inventory an earlier add of node "a" left
InitialFiles ==
    {Missing,
     FileOf(createEmptyFleetStore),
     FileOf(<<NewNode(0, AddOp(<<"a">>, <<"h">>, DefaultPort, <<"u">>))>>)}

\* ------------------------------------------------------------------------
\* Bootstrap executor: executeStep and executeBootstrapPlan
\* ------------------------------------------------------------------------

\* updateNode called by a process that meets no contention: validation,
\* ensureJsonFile, the lock (free), the locked read, the merge and the write
\* as one step; the result is the inventory file it leaves
updateNode(f, name, updates) ==
    IF ~validateUpdates(updates) THEN f
    ELSE LET ensured == IF f.exists THEN f ELSE FileOf(createEmptyFleetStore)
             store == ReadStore(ensured)
             idx == FindIndex(store, name)
         IN IF idx = 0 THEN ensured
            ELSE FileOf([store EXCEPT ![idx] = MergeUpdates(store[idx], updates)])

\* strictHostKeyChecking as executeStep, runPreflightCommand and
\* runNodeDiagnostics choose it: node.trusted ? "yes" : "accept-new"
StrictModeOff(trusted) == "no"

StrictMode(trusted) == IF trusted THEN "yes" ELSE "accept-new"

\* the SshExecResult values that matter to the executor: exit 0, a non-zero
\* exit, a kill by the timer (exit code null), and a timer that fired just
\* as the child exited with 0
SshResults ==
    {[exitCode |-> Some(0), timedOut |-> FALSE],
     [exitCode |-> Some(1), timedOut |-> FALSE],
     [exitCode |-> Undef, timedOut |-> TRUE],
     [exitCode |-> Some(0), timedOut |-> TRUE]}

\* executeStep: result.exitCode !== 0 || result.timedOut
CommandFailedIgnoringTimeout(r) == r.exitCode # Some(0)

CommandFailed(r) == r.exitCode # Some(0) \/ r.timedOut

\* executeBootstrapPlan: if (result.status === "failed") return
AbortNever(status) == FALSE

AbortOn(status) == status = "failed"

\* executeBootstrapPlan: the store is updated if (!dryRun)
UpdatesStoreAlways(d) == TRUE

UpdatesStore(d) == ~d

\* executeBootstrapPlan: if (dryRun), the step is recorded as a success
\* without a call of executeStep
DryRunSkipsExecuteNever(d) == FALSE

DryRunSkipsExecute(d) == d

\* executeBootstrapPlan: options.onProgress?.(step, result.status)
ReportedStatusStale(status) == "running"

ReportedStatus(status) == status

\* a step as the executor sees it: the value of its skip predicate on the
\* plan's fact sheet, and the number of its commands
StepShapes == [skip : BOOLEAN, ncmds : 1..MaxCmds]

RECURSIVE SeqsUpTo(_, _)
SeqsUpTo(S, n) ==
    IF n = 0 THEN {<<>>}
    ELSE LET shorter == SeqsUpTo(S, n - 1)
         IN shorter \cup {Append(q, x) : q \in {r \in shorter : Len(r) = n - 1}, x \in S}

PlanSteps == SeqsUpTo(StepShapes, MaxSteps) \ {<<>>}

StepResult(i, status, error) == [step |-> i, status |-> status, error |-> error]

\* a caller starts executeBootstrapPlan(plan, options)
ExecStart ==
    /\ UNCHANGED <<pingVars, restVars>>
    /\ xpc = "idle"
    /\ \E steps \in PlanSteps, d \in BOOLEAN, osv \in {"darwin", "linux"},
          t \in BOOLEAN :
        /\ plan' = [node |-> <<"a">>, trusted |-> t, steps |-> steps,
                    targetVersion |-> "2.0.0", os |-> osv, arch |-> "arm64"]
        /\ dryRun' = d
    /\ stepIdx' = 1
    /\ cmdIdx' = 0
    /\ stepResults' = <<>>
    /\ sent' = <<>>
    /\ progress' = <<>>
    /\ xres' = "none"
    /\ fileAtStart' = file
    /\ xpc' = "loop"
    /\ UNCHANGED storeVars

\* the head of the loop over plan.steps, up to the call of executeStep
ExecLoop ==
    /\ UNCHANGED <<pingVars, restVars>>
    /\ xpc = "loop"
    /\ IF stepIdx > Len(plan.steps)
       THEN /\ xpc' = "finish"
            /\ UNCHANGED <<stepIdx, cmdIdx, stepResults, progress>>
       ELSE IF plan.steps[stepIdx].skip
       THEN /\ progress' = Append(progress, <<stepIdx, "skipped">>)
            /\ stepResults' = Append(stepResults, StepResult(stepIdx, "skipped", "none"))
            /\ stepIdx' = stepIdx + 1
            /\ UNCHANGED <<xpc, cmdIdx>>
       ELSE IF DryRunSkipsExecute(dryRun)
       THEN /\ progress' = progress \o <<<<stepIdx, "running">>, <<stepIdx, "success">>>>
            /\ stepResults' = Append(stepResults, StepResult(stepIdx, "success", "none"))
            /\ stepIdx' = stepIdx + 1
            /\ UNCHANGED <<xpc, cmdIdx>>
       ELSE /\ progress' = Append(progress, <<stepIdx, "running">>)
            /\ cmdIdx' = 1
            /\ xpc' = "cmd"
            /\ UNCHANGED <<stepIdx, stepResults>>
    /\ UNCHANGED <<plan, dryRun, sent, xres, fileAtStart>>
    /\ UNCHANGED storeVars

\* executeStep: one sshExec and what follows from its result, up to the next
\* sshExec or the head of the loop
ExecCommand ==
    /\ UNCHANGED <<pingVars, restVars>>
    /\ xpc = "cmd"
    /\ \E r \in SshResults :
        /\ sent' = Append(sent, [step |-> stepIdx, cmd |-> cmdIdx, result |-> r,
                                  strictHostKeyChecking |-> StrictMode(plan.trusted)])
        /\ IF CommandFailed(r)
           THEN /\ stepResults' = Append(stepResults,
                        StepResult(stepIdx, "failed",
                            IF r.timedOut THEN "Command timed out" ELSE "Command failed"))
                /\ progress' = Append(progress, <<stepIdx, ReportedStatus("failed")>>)
                /\ cmdIdx' = 0
                /\ IF AbortOn("failed")
                   THEN /\ xres' = "failed"
                        /\ xpc' = "done"
                        /\ UNCHANGED stepIdx
                   ELSE /\ stepIdx' = stepIdx + 1
                        /\ xpc' = "loop"
                        /\ UNCHANGED xres
           ELSE IF cmdIdx < plan.steps[stepIdx].ncmds
           THEN /\ cmdIdx' = cmdIdx + 1
                /\ UNCHANGED <<stepResults, progress, stepIdx, xpc, xres>>
           ELSE /\ stepResults' = Append(stepResults, StepResult(stepIdx, "success", "none"))
                /\ progress' = Append(progress, <<stepIdx, ReportedStatus("success")>>)
                /\ cmdIdx' = 0
                /\ stepIdx' = stepIdx + 1
                /\ xpc' = "loop"
                /\ UNCHANGED xres
    /\ UNCHANGED <<plan, dryRun, fileAtStart>>
    /\ UNCHANGED storeVars

\* after the loop: the update of the store unless dryRun, and the successful
\* result
ExecFinish ==
    /\ UNCHANGED <<pingVars, restVars>>
    /\ xpc = "finish"
    /\ file' = IF UpdatesStore(dryRun)
               THEN updateNode(file, plan.node,
                               ExecutorUpdates(plan.os, plan.arch, plan.targetVersion))
               ELSE file
    /\ xres' = "success"
    /\ xpc' = "done"
    /\ UNCHANGED <<plan, dryRun, stepIdx, cmdIdx, stepResults, sent, progress,
                   fileAtStart>>
    /\ UNCHANGED <<lock, lockAge, pc, op, snap, attempts, res, opsDone, nextId,
                   staleReclaimed, ackNames, sawName, wiped, wrote>>

NoPlan == [node |-> <<>>, trusted |-> FALSE, steps |-> <<>>, targetVersion |-> "",
           os |-> "", arch |-> ""]

ExecIdle ==
    /\ xpc = "idle"
    /\ plan = NoPlan
    /\ dryRun = FALSE
    /\ stepIdx = 0
    /\ cmdIdx = 0
    /\ stepResults = <<>>
    /\ sent = <<>>
    /\ progress = <<>>
    /\ xres = "none"
    /\ fileAtStart = Missing

\* ------------------------------------------------------------------------
\* Host keys (host-keys.ts) and the ping command
\* ------------------------------------------------------------------------

HostKeyEntry(host, port, keyType, key) ==
    [host |-> host, port |-> port, keyType |-> keyType, key |-> key]

\* getHostKey without its preference: the first entry of the address
getHostKeyFirst(entries, host, port) ==
    LET AtAddress(e) == e.host = host /\ e.port = port
        matches == SelectSeq(entries, AtAddress)
    IN IF Len(matches) = 0 THEN Undef ELSE Some(matches[1])

\* getHostKey: ssh-ed25519 first, then ssh-rsa, then the first match
getHostKey(entries, host, port) ==
    LET AtAddress(e) == e.host = host /\ e.port = port
        matches == SelectSeq(entries, AtAddress)
        IsEd(e) == e.keyType = "ssh-ed25519"
        IsRsa(e) == e.keyType = "ssh-rsa"
        ed25519 == SelectSeq(matches, IsEd)
        rsa == SelectSeq(matches, IsRsa)
    IN IF Len(matches) = 0 THEN Undef
       ELSE IF ed25519 # <<>> THEN Some(ed25519[1])
       ELSE IF rsa # <<>> THEN Some(rsa[1])
       ELSE Some(matches[1])

\* pinHostKey dropping every entry of the host and port, whatever its type
pinHostKeyOfAddress(entries, entry) ==
    LET Other(e) == ~(e.host = entry.host /\ e.port = entry.port)
    IN Append(SelectSeq(entries, Other), entry)

\* pinHostKey: loadKnownHosts, drop the entries of the same host, port and
\* key type, push the entry, saveKnownHosts
pinHostKey(entries, entry) ==
    LET Other(e) == ~(e.host = entry.host /\ e.port = entry.port
                      /\ e.keyType = entry.keyType)
    IN Append(SelectSeq(entries, Other), entry)

\* The output of ssh-keyscan is a sequence of lines; a line is the sequence
\* of the tokens that trim() and split(/\s+/) give. The token "#" stands for
\* a token that begins with '#'.
\* output.trim() is empty
OutputBlank(output) == \A i \in 1..Len(output) : output[i] = <<>>

\* parseKeyscanOutput
RECURSIVE parseKeyscanOutput(_, _, _)
parseKeyscanOutput(output, host, port) ==
    IF output = <<>> THEN <<>>
    ELSE LET line == Head(output)
             rest == parseKeyscanOutput(Tail(output), host, port)
         IN IF line = <<>> \/ line[1] = "#" THEN rest
            ELSE IF Len(line) < 3 THEN rest
            ELSE <<HostKeyEntry(host, port, line[2], line[3])>> \o rest

\* the lines a scan of host "h" can print
ScanLines ==
    {<<"h", "ssh-ed25519", "K1">>,
     <<"h", "ssh-ed25519", "K2">>,
     <<"h", "ssh-rsa", "K3">>,
     <<"#", "h:22", "SSH-2.0">>,
     <<>>}

\* lines of one ssh-keyscan output
MaxLines == 2

\* the results of sshKeyscan: exit code 0, a non-zero exit code, or null
\* when the timer killed the scan; the output is what was printed until then
ScanResults ==
    [output : SeqsUpTo(ScanLines, MaxLines), exitCode : {Some(0), Some(1), Undef}]

NoScan == [output |-> <<>>, exitCode |-> Some(1)]

\* the known_hosts files ping can start from
InitialKnownHosts ==
    {<<>>,
     <<HostKeyEntry(<<"h">>, DefaultPort, "ssh-ed25519", "K1")>>,
     <<HostKeyEntry(<<"h">>, DefaultPort, "ssh-rsa", "K3"),
       HostKeyEntry(<<"h">>, DefaultPort, "ssh-ed25519", "K1")>>,
     <<HostKeyEntry(<<"g">>, DefaultPort, "ssh-ed25519", "K2")>>}

\* getNode: loadFleetStore and the case-insensitive find
getNode(f, name) ==
    LET store == ReadStore(f)
        idx == FindIndex(store, name)
    IN IF idx = 0 THEN Undef ELSE Some(store[idx])

\* a check of the scan result that looks at the output only
ScanFailedOnBlank(r) == OutputBlank(r.output)

\* whether the scan result is unusable: exitCode !== 0 || !output.trim()
ScanFailed(r) == r.exitCode # Some(0) \/ OutputBlank(r.output)

\* whether ping stops on a changed key: !opts.trustHostKeyChange
RejectsChange(trust) == ~trust

\* ping starts: the timeout check, getNode and getHostKey
PingStart ==
    /\ ppc = "idle"
    /\ \E name \in {<<"A">>, <<"b">>}, trust \in BOOLEAN, timeoutOk \in BOOLEAN :
        /\ pname' = name
        /\ trustHostKeyChange' = trust
        /\ IF ~timeoutOk
           THEN /\ pres' = "failed"
                /\ ppc' = "done"
                /\ UNCHANGED <<pnode, existingKey>>
           ELSE IF getNode(file, name) = Undef
           THEN /\ pres' = "failed"
                /\ ppc' = "done"
                /\ UNCHANGED <<pnode, existingKey>>
           ELSE /\ pnode' = getNode(file, name)
                /\ existingKey' = getHostKey(kh, getNode(file, name)[1].host,
                                              getNode(file, name)[1].port)
                /\ ppc' = "scan"
                /\ UNCHANGED pres
    /\ fileAtStart' = file
    /\ khAtStart' = kh
    /\ UNCHANGED <<kh, scan, toPin, hostKeyStatus, sshCalls>>
    /\ UNCHANGED <<storeVars, xpc, plan, dryRun, stepIdx, cmdIdx, stepResults,
                   sent, progress, xres>>
    /\ UNCHANGED restVars

\* the result of sshKeyscan arrives: first contact or verification
PingScan ==
    /\ ppc = "scan"
    /\ \E r \in ScanResults :
        LET keys == parseKeyscanOutput(r.output, pnode[1].host, pnode[1].port)
            Same(k) == k.keyType = existingKey[1].keyType /\ k.key = existingKey[1].key
        IN /\ scan' = r
           /\ IF existingKey = Undef
              THEN IF ScanFailed(r) \/ Len(keys) = 0
                   THEN /\ pres' = "failed"
                        /\ ppc' = "done"
                        /\ UNCHANGED <<toPin, hostKeyStatus>>
                   ELSE /\ toPin' = keys
                        /\ hostKeyStatus' = "new"
                        /\ ppc' = "pin"
                        /\ UNCHANGED pres
              ELSE IF ScanFailed(r)
                   THEN /\ hostKeyStatus' = "pinned"
                        /\ ppc' = "exec"
                        /\ UNCHANGED <<toPin, pres>>
                   ELSE IF SelectSeq(keys, Same) # <<>>
                   THEN /\ hostKeyStatus' = "verified"
                        /\ ppc' = "exec"
                        /\ UNCHANGED <<toPin, pres>>
                   ELSE IF RejectsChange(trustHostKeyChange)
                   THEN /\ pres' = "failed"
                        /\ ppc' = "done"
                        /\ UNCHANGED <<toPin, hostKeyStatus>>
                   ELSE /\ toPin' = keys
                        /\ hostKeyStatus' = "changed"
                        /\ ppc' = IF keys = <<>> THEN "exec" ELSE "pin"
                        /\ UNCHANGED pres
    /\ UNCHANGED <<kh, pname, pnode, trustHostKeyChange, existingKey, sshCalls,
                   khAtStart>>
    /\ UNCHANGED <<storeVars, execVars, restVars>>

\* one turn of a pin loop: pinHostKey(key)
PingPin ==
    /\ ppc = "pin"
    /\ kh' = pinHostKey(kh, Head(toPin))
    /\ toPin' = Tail(toPin)
    /\ ppc' = IF Tail(toPin) = <<>> THEN "exec" ELSE "pin"
    /\ UNCHANGED <<pname, pnode, trustHostKeyChange, existingKey, scan,
                   hostKeyStatus, sshCalls, pres, khAtStart>>
    /\ UNCHANGED <<storeVars, execVars, restVars>>

\* sshExec of the test command with strictHostKeyChecking "yes", the update
\* of lastSeen when it exits 0, and the output
PingExec ==
    /\ ppc = "exec"
    /\ \E r \in SshResults :
        /\ sshCalls' = Append(sshCalls,
                [host |-> pnode[1].host, strictHostKeyChecking |-> "yes", result |-> r])
        /\ file' = IF r.exitCode = Some(0)
                   THEN updateNode(file, pname, [NoUpdates EXCEPT !.lastSeen = Some("now")])
                   ELSE file
        /\ pres' = IF r.exitCode = Some(0) THEN "ok" ELSE "failed"
    /\ ppc' = "done"
    /\ UNCHANGED <<kh, pname, pnode, trustHostKeyChange, existingKey, scan, toPin,
                   hostKeyStatus, khAtStart>>
    /\ UNCHANGED <<lock, lockAge, pc, op, snap, attempts, res, opsDone, nextId,
                   staleReclaimed, ackNames, sawName, wiped, wrote>>
    /\ UNCHANGED <<execVars, restVars>>

PingIdle ==
    /\ ppc = "idle"
    /\ pname = <<>>
    /\ pnode = Undef
    /\ trustHostKeyChange = FALSE
    /\ existingKey = Undef
    /\ scan = NoScan
    /\ toPin = <<>>
    /\ hostKeyStatus = "none"
    /\ sshCalls = <<>>
    /\ pres = "none"
    /\ khAtStart = kh

\* ------------------------------------------------------------------------
\* The known_hosts file of the fleet (host-keys.ts): format, parse, pin
\* ------------------------------------------------------------------------

\* operations on the known_hosts file in one behaviour
MaxTrustOps == 3

\* the port formatHostEntry writes without brackets
SshPort == 22

Digits == <<"0", "1", "2", "3", "4", "5", "6", "7", "8", "9">>

DigitChars == {Digits[i] : i \in 1..Len(Digits)}

DigitVal(c) == (CHOOSE i \in 1..Len(Digits) : Digits[i] = c) - 1

\* the decimal digits of a port in a template literal
RECURSIVE ToDigits(_)
ToDigits(n) ==
    IF n < 10 THEN <<Digits[n + 1]>>
    ELSE Append(ToDigits(n \div 10), Digits[(n % 10) + 1])

\* Number.parseInt(digits, 10) on a run of decimal digits
RECURSIVE ParseInt(_)
ParseInt(ds) ==
    IF Len(ds) = 1 THEN DigitVal(ds[1])
    ELSE 10 * ParseInt(SubSeq(ds, 1, Len(ds) - 1)) + DigitVal(ds[Len(ds)])

\* the first index of atom c in s, 0 if there is none
IndexOf(s, c) ==
    IF \E i \in 1..Len(s) : s[i] = c
    THEN CHOOSE i \in 1..Len(s) : s[i] = c /\ \A j \in 1..(i - 1) : s[j] # c
    ELSE 0

formatHostEntry(host, port) ==
    IF port = SshPort THEN host
    ELSE <<"[">> \o host \o <<"]", ":">> \o ToDigits(port)

\* parseHostEntry: entry.match(/^\[([^\]]+)\]:(\d+)$/), else [entry, 22]
parseHostEntry(entry) ==
    LET close == IndexOf(entry, "]")
        bracketMatch ==
            /\ Len(entry) > 0
            /\ entry[1] = "["
            /\ close >= 3
            /\ Len(entry) >= close + 2
            /\ entry[close + 1] = ":"
            /\ \A i \in (close + 2)..Len(entry) : entry[i] \in DigitChars
    IN IF bracketMatch
       THEN <<SubSeq(entry, 2, close - 1),
              ParseInt(SubSeq(entry, close + 2, Len(entry)))>>
       ELSE <<entry, SshPort>>

\* trimmed.split(/\s+/) on a trimmed line
RECURSIVE SplitWs(_)
SplitWs(s) ==
    IF s = <<>> THEN <<>>
    ELSE IF s[1] = " " THEN SplitWs(Tail(s))
    ELSE LET sp == IndexOf(s, " ")
             n == IF sp = 0 THEN Len(s) ELSE sp - 1
         IN <<SubSeq(s, 1, n)>> \o SplitWs(SubSeq(s, n + 1, Len(s)))

\* parseKnownHosts on the lines content.split("\n") gives; a key type and a
\* key are one atom each
RECURSIVE parseKnownHosts(_)
parseKnownHosts(content) ==
    IF content = <<>> THEN <<>>
    ELSE LET trimmed == Trim(Head(content))
             parts == SplitWs(trimmed)
             rest == parseKnownHosts(Tail(content))
         IN IF trimmed = <<>> \/ StartsWith(trimmed, "#") THEN rest
            ELSE IF Len(parts) < 3 THEN rest
            ELSE LET hp == parseHostEntry(parts[1])
                 IN <<HostKeyEntry(hp[1], hp[2], parts[2][1], parts[3][1])>> \o rest

\* formatKnownHosts: lines.join("\n") + "\n", as the lines a later
\* split("\n") gives
formatKnownHosts(entries) ==
    LET lines == [i \in 1..Len(entries) |->
                     formatHostEntry(entries[i].host, entries[i].port)
                       \o <<" ", entries[i].keyType, " ", entries[i].key>>]
    IN (IF lines = <<>> THEN <<<<>>>> ELSE lines) \o <<<<>>>>

\* loadKnownHosts: [] when the file does not exist
loadKnownHosts(f) == IF f = Undef THEN <<>> ELSE parseKnownHosts(f[1])

\* saveKnownHosts: the content the rename publishes
saveKnownHosts(entries) == Some(formatKnownHosts(entries))

\* hasHostKeyChanged: existing.keyType === entry.keyType && existing.key === entry.key
SameKeyNever(existing, entry) == FALSE

SameKey(existing, entry) ==
    existing.keyType = entry.keyType /\ existing.key = entry.key

hasHostKeyChanged(entries, entry) ==
    LET existing == getHostKey(entries, entry.host, entry.port)
    IN IF existing = Undef THEN "null"
       ELSE IF SameKey(existing[1], entry) THEN "false"
       ELSE "true"

\* the addresses callers ask about: a plain host on the default and on
\* another port, and a host written in the bracket form of known_hosts
TrustAddresses ==
    {<<<<"h">>, 22>>, <<<<"h">>, 23>>, <<<<"[", "h", "]", ":", "2", "3">>, 22>>}

TrustEntries ==
    {HostKeyEntry(a[1], a[2], t, k) :
        a \in TrustAddresses,
        t \in {"ssh-ed25519", "ssh-rsa", "ecdsa-sha2-nistp256"},
        k \in {"K1", "K2"}}

\* a known_hosts file somebody wrote by hand: a comment, an entry with a
\* trailing comment, a line that is too short
HandWritten ==
    <<<<"#", " ", "fleet">>,
      <<" ", "h", " ", "ecdsa-sha2-nistp256", " ", "K1", " ", "note">>,
      <<"h", " ", "ssh-rsa">>,
      <<>>>>

NoEntry == HostKeyEntry(<<>>, 0, "", "")

\* pinHostKey(entry)
TrustPin ==
    /\ tops < MaxTrustOps
    /\ \E e \in TrustEntries :
        /\ khFile' = saveKnownHosts(pinHostKey(loadKnownHosts(khFile), e))
        /\ targ' = e
    /\ top' = "pin"
    /\ tbefore' = khFile
    /\ tops' = tops + 1
    /\ UNCHANGED <<tgot, tchanged>>
    /\ UNCHANGED <<storeVars, execVars, pingVars, allButTrustVars, extraVars>>

\* getHostKey(host, port)
TrustGet ==
    /\ tops < MaxTrustOps
    /\ \E a \in TrustAddresses :
        /\ tgot' = getHostKey(loadKnownHosts(khFile), a[1], a[2])
        /\ targ' = HostKeyEntry(a[1], a[2], "", "")
    /\ top' = "get"
    /\ tbefore' = khFile
    /\ tops' = tops + 1
    /\ UNCHANGED <<khFile, tchanged>>
    /\ UNCHANGED <<storeVars, execVars, pingVars, allButTrustVars, extraVars>>

\* hasHostKeyChanged(entry)
TrustHasChanged ==
    /\ tops < MaxTrustOps
    /\ \E e \in TrustEntries :
        /\ tchanged' = hasHostKeyChanged(loadKnownHosts(khFile), e)
        /\ targ' = e
    /\ top' = "hasChanged"
    /\ tbefore' = khFile
    /\ tops' = tops + 1
    /\ UNCHANGED <<khFile, tgot>>
    /\ UNCHANGED <<storeVars, execVars, pingVars, allButTrustVars, extraVars>>

TrustIdle ==
    /\ top = "none"
    /\ targ = NoEntry
    /\ tbefore = Undef
    /\ tgot = Undef
    /\ tchanged = "none"
    /\ tops = 0

\* ------------------------------------------------------------------------
\* formatKnownHosts and parseKnownHosts applied to each other
\* ------------------------------------------------------------------------

\* entries of a list handed to formatKnownHosts
MaxEntries == 2

\* lines of a text handed to parseKnownHosts
MaxText == 2

\* entries with a plain host, a host that begins with '#', and a host in
\* the bracket form
RoundTripEntries ==
    {HostKeyEntry(h, p, t, "K1") :
        h \in {<<"h">>, <<"#", "h">>, <<"[", "h", "]", ":", "2", "3">>},
        p \in {22, 23},
        t \in {"ssh-ed25519", "ssh-rsa"}}

\* lines of a known_hosts text: entries on the default and on another port,
\* a port with a leading zero, a bracket form around a '#' host, a comment,
\* a blank line, a line that is too short, an entry with a trailing comment
RoundTripLines ==
    {<<"h", " ", "ssh-rsa", " ", "K1">>,
     <<"[", "h", "]", ":", "2", "3", " ", "ssh-ed25519", " ", "K1">>,
     <<"[", "h", "]", ":", "0", "2", "2", " ", "ssh-ed25519", " ", "K1">>,
     <<"[", "#", "h", "]", ":", "2", "2", " ", "ssh-rsa", " ", "K1">>,
     <<"#", " ", "fleet">>,
     <<" ">>,
     <<"h", " ", "ssh-rsa">>,
     <<" ", "h", " ", "ssh-ed25519", " ", "K1", " ", "note">>}

\* parseKnownHosts(formatKnownHosts(entries)) for a list of entries
FormatThenParse ==
    /\ \E entries \in SeqsUpTo(RoundTripEntries, MaxEntries) :
        /\ rtIn' = entries
        /\ rtText' = formatKnownHosts(entries)
        /\ rtOut' = parseKnownHosts(formatKnownHosts(entries))
    /\ rtKind' = "entries"
    /\ rtAgain' = <<>>
    /\ UNCHANGED <<storeVars, execVars, pingVars, allButTrustVars, trustVars, planVars, statusVars, lateVars>>

\* formatKnownHosts(parseKnownHosts(s)) for a text s, and the same applied to
\* its result
ParseThenFormat ==
    /\ \E s \in SeqsUpTo(RoundTripLines, MaxText) \ {<<>>} :
        LET canonical == formatKnownHosts(parseKnownHosts(s))
        IN /\ rtIn' = s
           /\ rtText' = canonical
           /\ rtAgain' = formatKnownHosts(parseKnownHosts(canonical))
    /\ rtKind' = "text"
    /\ rtOut' = <<>>
    /\ UNCHANGED <<storeVars, execVars, pingVars, allButTrustVars, trustVars, planVars, statusVars, lateVars>>

RoundTripIdle ==
    /\ rtKind = "none"
    /\ rtIn = <<>>
    /\ rtText = <<>>
    /\ rtOut = <<>>
    /\ rtAgain = <<>>

\* ------------------------------------------------------------------------
\* The plan builder (bootstrap/plan-builder.ts)
\* ------------------------------------------------------------------------

\* the fact sheets the builder is given, as far as it reads them
PlanFacts ==
    [os : {"darwin", "linux", "unknown"}, hasNode : BOOLEAN, hasRaven : BOOLEAN,
     ravenVersion : {Undef, Some("1.2.3"), Some("2.0.0")}, hasService : BOOLEAN]

\* options.version and options.force, each possibly left out
VersionOptions == {Undef, Some("latest"), Some("1.2.3")}

ForceOptions == {Undef, Some(TRUE), Some(FALSE)}

\* a BootstrapStep: its id, the number of its commands, its skippable flag
\* and its skipIf closure, given by its kind and the variables it captured
\* ("undefined" for a step without skipIf)
Step(id, ncmds, skippable, skipIf) ==
    [id |-> id, ncmds |-> ncmds, skippable |-> skippable, skipIf |-> skipIf]

NoSkipIf == [kind |-> "undefined", force |-> FALSE, version |-> ""]

NodeSkipIf == [kind |-> "node", force |-> FALSE, version |-> ""]

RavenSkipIf(force, version) == [kind |-> "raven", force |-> force, version |-> version]

ServiceSkipIf(force) == [kind |-> "service", force |-> force, version |-> ""]

\* install-raven: version === "latest" || info.ravenVersion === version
RavenUpToDateAlways(info, version) == TRUE

RavenUpToDate(info, version) ==
    version = "latest" \/ info.ravenVersion = Some(version)

\* skippable: !force
SkippableAlways(force) == TRUE

SkippableUnlessForced(force) == ~force

\* step.skipIf?.(info) ?? false
SkipIf(step, info) ==
    CASE step.skipIf.kind = "node" -> info.hasNode
      [] step.skipIf.kind = "raven" ->
            /\ ~step.skipIf.force
            /\ info.hasRaven
            /\ RavenUpToDate(info, step.skipIf.version)
      [] step.skipIf.kind = "service" -> ~step.skipIf.force /\ info.hasService
      [] OTHER -> FALSE

buildMacOSSteps(info, version, force) ==
    <<Step("install-node", 2, TRUE, NodeSkipIf),
      Step("install-raven", 1, SkippableUnlessForced(force), RavenSkipIf(force, version)),
      Step("create-config-dir", 2, FALSE, NoSkipIf),
      Step("install-service", 2, SkippableUnlessForced(force), ServiceSkipIf(force)),
      Step("start-service", 2, FALSE, NoSkipIf),
      Step("verify-service", 3, FALSE, NoSkipIf)>>

\* the steps of Linux without the last one
buildLinuxStepsNoVerify(info, version, force) ==
    SubSeq(buildMacOSSteps(info, version, force), 1, 5)

buildLinuxSteps(info, version, force) ==
    <<Step("install-node", 1, TRUE, NodeSkipIf),
      Step("install-raven", 1, SkippableUnlessForced(force), RavenSkipIf(force, version)),
      Step("create-config-dir", 2, FALSE, NoSkipIf),
      Step("install-service", 4, SkippableUnlessForced(force), ServiceSkipIf(force)),
      Step("start-service", 1, FALSE, NoSkipIf),
      Step("verify-service", 3, FALSE, NoSkipIf)>>

\* options.version ?? "latest", options.force ?? false
OrElse(option, default) == IF option = Undef THEN default ELSE option[1]

\* buildBootstrapPlan: the plan, or Undef where it throws
buildBootstrapPlan(node, info, versionOption, forceOption) ==
    LET version == OrElse(versionOption, "latest")
        force == OrElse(forceOption, FALSE)
    IN IF info.os \notin {"darwin", "linux"} THEN Undef
       ELSE Some([node |-> node,
                  nodeInfo |-> info,
                  steps |-> IF info.os = "darwin"
                            THEN buildMacOSSteps(info, version, force)
                            ELSE buildLinuxSteps(info, version, force),
                  targetVersion |-> version,
                  force |-> force])

\* formatPlan: const willSkip = step.skipIf?.(plan.nodeInfo) ?? false
WillSkipIfSkippable(step, info) == step.skippable

WillSkip(step, info) == SkipIf(step, info)

\* formatPlan, as far as its [SKIP] marks go: one mark per step
formatPlan(p) == [i \in 1..Len(p.steps) |-> WillSkip(p.steps[i], p.nodeInfo)]

\* a caller builds a plan for node "a"
PlanBuild ==
    /\ bppc = "idle"
    /\ \E info \in PlanFacts, v \in VersionOptions, f \in ForceOptions :
        LET result == buildBootstrapPlan(<<"a">>, info, v, f)
        IN /\ buildArgs' = [nodeInfo |-> info, version |-> v, force |-> f]
           /\ built' = result
           /\ bppc' = IF result = Undef THEN "threw" ELSE "built"
    /\ UNCHANGED marks
    /\ UNCHANGED <<storeVars, execVars, pingVars, allButTrustVars, trustVars, rtVars, statusVars, lateVars>>

\* the caller renders the plan it built
PlanFormat ==
    /\ bppc = "built"
    /\ marks = Undef
    /\ xpc = "idle"
    /\ marks' = Some(formatPlan(built[1]))
    /\ UNCHANGED <<bppc, buildArgs, built>>
    /\ UNCHANGED <<storeVars, execVars, pingVars, allButTrustVars, trustVars, rtVars, statusVars, lateVars>>

\* the caller hands the plan to executeBootstrapPlan. The executor evaluates
\* step.skipIf?.(plan.nodeInfo) ?? false at the head of each iteration; the
\* fact sheet of the plan is the one of build time, so the value is that of
\* the hand-over.
PlanExecute ==
    /\ bppc = "built"
    /\ xpc = "idle"
    /\ \E d \in BOOLEAN : dryRun' = d
    /\ plan' = [node |-> built[1].node, trusted |-> TRUE,
                steps |-> [i \in 1..Len(built[1].steps) |->
                              [skip |-> SkipIf(built[1].steps[i], built[1].nodeInfo),
                               ncmds |-> built[1].steps[i].ncmds]],
                targetVersion |-> built[1].targetVersion,
                os |-> built[1].nodeInfo.os, arch |-> "arm64"]
    /\ stepIdx' = 1
    /\ cmdIdx' = 0
    /\ stepResults' = <<>>
    /\ sent' = <<>>
    /\ progress' = <<>>
    /\ xres' = "none"
    /\ fileAtStart' = file
    /\ xpc' = "loop"
    /\ UNCHANGED <<bppc, buildArgs, built, marks>>
    /\ UNCHANGED <<storeVars, pingVars, allButTrustVars, trustVars, rtVars, statusVars, lateVars>>

NoBuildArgs ==
    [nodeInfo |-> [os |-> "", hasNode |-> FALSE, hasRaven |-> FALSE,
                   ravenVersion |-> Undef, hasService |-> FALSE],
     version |-> Undef, force |-> Undef]

PlanIdle ==
    /\ bppc = "idle"
    /\ buildArgs = NoBuildArgs
    /\ built = Undef
    /\ marks = Undef

\* ------------------------------------------------------------------------
\* Transport: sshExec and sshKeyscan (ssh-transport.ts)
\* ------------------------------------------------------------------------

\* transport calls of one behaviour
MaxCalls == 2

\* hosts the transport functions are called with
TransportHosts ==
    {<<"h">>, <<"-", "o">>, <<"-">>, <<" ", "-", "x">>, <<"h", "-">>}

\* the security check at the head of sshExec and sshKeyscan
RejectsHostNever(host) == FALSE

RejectsHost(host) == StartsWith(host, "-")

RejectionMessage == "Host cannot start with '-' (security)"

\* an SshExecResult, without the accumulated stdout
SshExecResult(exitCode, signal, to, stderr) ==
    [exitCode |-> exitCode, signal |-> signal, timedOut |-> to, stderr |-> stderr]

\* the result of sshKeyscan, without the accumulated output
KeyscanResult(exitCode, error) == [exitCode |-> exitCode, error |-> error]

\* the exit codes of a child that ends by itself
ChildCodes == {0, 1, 255}

\* the value of timedOut in the result the 'error' handler of sshExec builds
ErrorTimedOut(to) == FALSE

\* a caller calls sshExec or sshKeyscan: the host check, then spawn and
\* setTimeout; a spawn that fails leaves a child that will emit 'error'
TransportCall ==
    /\ tpc \in {"idle", "resolved"}
    /\ tcalls < MaxCalls
    /\ tcalls' = tcalls + 1
    /\ \E fn \in {"sshExec", "sshKeyscan"}, host \in TransportHosts, ok \in BOOLEAN :
        /\ tfn' = fn
        /\ thost' = host
        /\ IF RejectsHost(host)
           THEN /\ tpc' = "resolved"
                /\ tresult' = IF fn = "sshExec"
                              THEN Some(SshExecResult(Some(1), "none", FALSE, RejectionMessage))
                              ELSE Some(KeyscanResult(Some(1), RejectionMessage))
                /\ resolves' = 1
                /\ spawned' = 0
                /\ timer' = "none"
                /\ child' = "none"
           ELSE /\ tpc' = "running"
                /\ tresult' = Undef
                /\ resolves' = 0
                /\ spawned' = 1
                /\ timer' = "armed"
                /\ child' = IF ok THEN "alive" ELSE "nospawn"
    /\ timedOut' = FALSE
    /\ resolved' = FALSE
    /\ childCode' = Undef
    /\ exitSeen' = FALSE
    /\ tevents' = <<>>
    /\ UNCHANGED <<storeVars, execVars, pingVars, bootVars, diagVars, trustVars, extraVars>>

\* the child process ends by itself; its 'exit' event is delivered later
ChildExits ==
    /\ child = "alive"
    /\ \E c \in ChildCodes : childCode' = Some(c)
    /\ child' = "exited"
    /\ tevents' = Append(tevents, "childExit")
    /\ UNCHANGED <<tpc, tfn, thost, spawned, timedOut, resolved, resolves, tresult,
                   timer, exitSeen, tcalls>>
    /\ UNCHANGED <<storeVars, execVars, pingVars, bootVars, diagVars, trustVars, extraVars>>

\* the setTimeout callback. child.kill("SIGKILL") kills a live child, does
\* nothing to one that has ended, and emits 'error' when the signal cannot be
\* delivered; the emit runs the 'error' handler inside the callback. A spawn
\* failure is reported on the next tick, before any timer can fire.
TimerFires ==
    /\ timer = "armed"
    /\ child # "nospawn"
    /\ timer' = "fired"
    /\ \E killFails \in BOOLEAN :
        LET failed == killFails /\ child = "alive" /\ ~resolved
        IN /\ child' = IF child = "alive" /\ ~resolved /\ ~failed THEN "killed" ELSE child
           /\ tevents' = IF failed THEN tevents \o <<"timer", "error">>
                         ELSE Append(tevents, "timer")
           /\ IF resolved
              THEN UNCHANGED <<timedOut, resolved, resolves, tresult, tpc>>
              ELSE IF tfn = "sshExec"
              THEN /\ timedOut' = TRUE
                   /\ IF failed
                      THEN /\ resolved' = TRUE
                           /\ resolves' = resolves + 1
                           /\ tresult' = Some(SshExecResult(Some(1), "none",
                                                ErrorTimedOut(TRUE), "SSH error"))
                           /\ tpc' = "resolved"
                      ELSE UNCHANGED <<resolved, resolves, tresult, tpc>>
              ELSE /\ resolved' = TRUE
                   /\ resolves' = resolves + 1
                   /\ tresult' = Some(KeyscanResult(Undef, "ssh-keyscan timed out"))
                   /\ tpc' = "resolved"
                   /\ UNCHANGED timedOut
    /\ UNCHANGED <<tfn, thost, spawned, childCode, exitSeen, tcalls>>
    /\ UNCHANGED <<storeVars, execVars, pingVars, bootVars, diagVars, trustVars, extraVars>>

\* the 'exit' handler: a killed child reports code null and the signal
ExitEvent ==
    /\ child \in {"exited", "killed"}
    /\ ~exitSeen
    /\ exitSeen' = TRUE
    /\ tevents' = Append(tevents, "exit")
    /\ IF resolved
       THEN UNCHANGED <<resolved, resolves, tresult, tpc, timer>>
       ELSE /\ resolved' = TRUE
            /\ resolves' = resolves + 1
            /\ timer' = IF timer = "armed" THEN "cleared" ELSE timer
            /\ tpc' = "resolved"
            /\ LET code == IF child = "killed" THEN Undef ELSE childCode
                   signal == IF child = "killed" THEN "SIGKILL" ELSE "none"
               IN tresult' = IF tfn = "sshExec"
                             THEN Some(SshExecResult(code, signal, timedOut, ""))
                             ELSE Some(KeyscanResult(code, ""))
    /\ UNCHANGED <<tfn, thost, spawned, timedOut, child, childCode, tcalls>>
    /\ UNCHANGED <<storeVars, execVars, pingVars, bootVars, diagVars, trustVars, extraVars>>

\* the 'error' handler, run for a spawn that failed
ErrorEvent ==
    /\ child = "nospawn"
    /\ child' = "failed"
    /\ tevents' = Append(tevents, "error")
    /\ IF resolved
       THEN UNCHANGED <<resolved, resolves, tresult, tpc, timer>>
       ELSE /\ resolved' = TRUE
            /\ resolves' = resolves + 1
            /\ timer' = IF timer = "armed" THEN "cleared" ELSE timer
            /\ tpc' = "resolved"
            /\ tresult' = IF tfn = "sshExec"
                          THEN Some(SshExecResult(Some(1), "none",
                                        ErrorTimedOut(timedOut), "SSH error"))
                          ELSE Some(KeyscanResult(Some(1), "ssh-keyscan error"))
    /\ UNCHANGED <<tfn, thost, spawned, timedOut, childCode, exitSeen, tcalls>>
    /\ UNCHANGED <<storeVars, execVars, pingVars, bootVars, diagVars, trustVars, extraVars>>

TransportIdle ==
    /\ tpc = "idle"
    /\ tfn = "none"
    /\ thost = <<>>
    /\ spawned = 0
    /\ timedOut = FALSE
    /\ resolved = FALSE
    /\ resolves = 0
    /\ tresult = Undef
    /\ timer = "none"
    /\ child = "none"
    /\ childCode = Undef
    /\ exitSeen = FALSE
    /\ tevents = <<>>
    /\ tcalls = 0

\* ------------------------------------------------------------------------
\* Preflight (preflight.ts), bootstrap (bootstrap/index.ts) and
\* runNodeDiagnostics (commands/fleet/status.ts)
\* ------------------------------------------------------------------------

\* String.prototype.includes: t occurs in s as a run of consecutive atoms
Includes(s, t) ==
    \E i \in 0..(Len(s) - Len(t)) : SubSeq(s, i + 1, i + Len(t)) = t

\* the i-th line of a split output, "" where the code has lines[i] || ""
LineOf(lines, i) == IF i <= Len(lines) THEN lines[i] ELSE <<>>

parseOs(uname) ==
    LET lower == Trim(ToLowerCase(uname))
    IN IF Includes(lower, <<"darwin">>) THEN "darwin"
       ELSE IF Includes(lower, <<"linux">>) THEN "linux"
       ELSE "unknown"

parseArch(unameM) ==
    LET lower == Trim(ToLowerCase(unameM))
    IN IF lower = <<"x86_64">> \/ lower = <<"amd64">> THEN "x64"
       ELSE IF lower = <<"arm64">> \/ lower = <<"aarch64">> THEN "arm64"
       ELSE "unknown"

\* stdout of "uname -s && uname -m && echo $HOME", trimmed and split into
\* lines: all three lines, the home directory missing, or nothing at all
UnameOutputs ==
    {<<o, a, <<"/home">>>> : o \in {<<"Darwin">>, <<"Linux", " ">>, <<"FreeBSD">>},
                             a \in {<<"aarch64">>, <<"riscv">>}}
      \cup {<<o, <<"aarch64">>>> : o \in {<<"Darwin">>, <<"Linux", " ">>}}
      \cup {<<>>}

\* stdout of "<tool> --version 2>/dev/null || echo 'NOT_FOUND'"
ProbeOutputs == {<<"v20">>, <<"NOT_", "FOUND">>, <<>>}

\* stdout of the launchctl / systemctl is-enabled probe
ServiceOutputs ==
    {<<"FOUND">>, <<"NOT_", "FOUND">>, <<"enabled", "\n", "FOUND">>,
     <<"disabled", "\n", "NOT_", "FOUND">>, <<>>}

\* stdout of the launchctl / systemctl is-active probe
RunningOutputs == {<<"RUNNING">>, <<"STOPPED">>, <<"active">>, <<"inactive">>, <<>>}

\* history: a round trip that timed out, or exited non-zero with nothing on
\* stdout
RoundTripFailed(r, out) == r.timedOut \/ (r.exitCode # Some(0) /\ out = <<>>)

NoNodeInfo ==
    [os |-> "", arch |-> "", homeDir |-> <<>>, hasNode |-> FALSE, hasNpm |-> FALSE,
     hasRaven |-> FALSE, hasService |-> FALSE, serviceRunning |-> FALSE]

\* gatherNodeInfo: const hasX = !stdout.includes("NOT_FOUND") && exitCode === 0
HasTool(r, out) == ~Includes(out, <<"NOT_", "FOUND">>) /\ r.exitCode = Some(0)

\* gatherNodeInfo: hasService, per OS
HasService(os, out) ==
    IF os = "darwin" THEN Includes(out, <<"FOUND">>)
    ELSE Includes(out, <<"enabled">>) \/ Includes(out, <<"disabled">>)

\* gatherNodeInfo: serviceRunning, per OS
ServiceRunning(os, out) ==
    IF os = "darwin" THEN Includes(out, <<"RUNNING">>)
    ELSE Trim(out) = <<"active">>

\* bootstrap: if (nodeInfo.os === "unknown")
UnsupportedOsNever(os) == FALSE

UnsupportedOs(os) == os = "unknown"

\* a caller starts bootstrap(options) for a node, trusted or not, of the
\* inventory
BootStart ==
    /\ bpc = "idle" /\ xpc = "idle" /\ ppc = "idle" /\ dpc = "idle"
    /\ \E t \in BOOLEAN, d \in BOOLEAN :
        /\ bnode' = [name |-> <<"a">>, trusted |-> t]
        /\ bdryRun' = d
    /\ bpc' = "uname"
    /\ fileAtStart' = file
    /\ serviceOut' = Undef
    /\ UNCHANGED <<nodeInfo, probeFailed, preModes, bres>>
    /\ UNCHANGED <<xpc, plan, dryRun, stepIdx, cmdIdx, stepResults, sent, progress, xres>>
    /\ UNCHANGED <<storeVars, pingVars, transportVars, diagVars, trustVars, extraVars>>

\* gatherNodeInfo: the uname round trip, up to the next runPreflightCommand or
\* the failed return, which bootstrap turns into its failed result
PreflightUname ==
    /\ bpc = "uname"
    /\ \E r \in SshResults, lines \in UnameOutputs :
        /\ preModes' = preModes \cup {StrictMode(bnode.trusted)}
        /\ probeFailed' = (probeFailed \/ RoundTripFailed(r, lines))
        /\ IF r.exitCode # Some(0)
           THEN /\ bpc' = "done"
                /\ bres' = "failed"
                /\ UNCHANGED nodeInfo
           ELSE LET homeDir == Trim(LineOf(lines, 3))
                IN IF homeDir = <<>>
                   THEN /\ bpc' = "done"
                        /\ bres' = "failed"
                        /\ UNCHANGED nodeInfo
                   ELSE /\ nodeInfo' = [NoNodeInfo EXCEPT
                                           !.os = parseOs(LineOf(lines, 1)),
                                           !.arch = parseArch(LineOf(lines, 2)),
                                           !.homeDir = homeDir]
                        /\ bpc' = "node"
                        /\ UNCHANGED bres
    /\ UNCHANGED <<bnode, bdryRun, serviceOut>>
    /\ UNCHANGED <<storeVars, execVars, pingVars, transportVars, diagVars, trustVars, extraVars>>

\* gatherNodeInfo: the node, npm and raven round trips
PreflightProbe ==
    /\ bpc \in {"node", "npm", "raven"}
    /\ \E r \in SshResults, out \in ProbeOutputs :
        /\ preModes' = preModes \cup {StrictMode(bnode.trusted)}
        /\ probeFailed' = (probeFailed \/ RoundTripFailed(r, out))
        /\ nodeInfo' = CASE bpc = "node" -> [nodeInfo EXCEPT !.hasNode = HasTool(r, out)]
                         [] bpc = "npm" -> [nodeInfo EXCEPT !.hasNpm = HasTool(r, out)]
                         [] bpc = "raven" -> [nodeInfo EXCEPT !.hasRaven = HasTool(r, out)]
    /\ bpc' = CASE bpc = "node" -> "npm"
                [] bpc = "npm" -> "raven"
                [] bpc = "raven" ->
                     IF nodeInfo.os \in {"darwin", "linux"} THEN "service" ELSE "return"
    /\ UNCHANGED <<bnode, bdryRun, bres, serviceOut>>
    /\ UNCHANGED <<storeVars, execVars, pingVars, transportVars, diagVars, trustVars, extraVars>>

\* gatherNodeInfo: the service round trip of darwin or linux
PreflightService ==
    /\ bpc = "service"
    /\ \E r \in SshResults, out \in ServiceOutputs :
        /\ preModes' = preModes \cup {StrictMode(bnode.trusted)}
        /\ probeFailed' = (probeFailed \/ RoundTripFailed(r, out))
        /\ nodeInfo' = [nodeInfo EXCEPT !.hasService = HasService(nodeInfo.os, out)]
        /\ bpc' = IF HasService(nodeInfo.os, out) THEN "running" ELSE "return"
        /\ serviceOut' = Some(out)
    /\ UNCHANGED <<bnode, bdryRun, bres>>
    /\ UNCHANGED <<storeVars, execVars, pingVars, transportVars, diagVars, trustVars, extraVars>>

\* gatherNodeInfo: the round trip that asks whether the service runs
PreflightRunning ==
    /\ bpc = "running"
    /\ \E r \in SshResults, out \in RunningOutputs :
        /\ preModes' = preModes \cup {StrictMode(bnode.trusted)}
        /\ probeFailed' = (probeFailed \/ RoundTripFailed(r, out))
        /\ nodeInfo' = [nodeInfo EXCEPT
                           !.serviceRunning = ServiceRunning(nodeInfo.os, out)]
    /\ bpc' = "return"
    /\ UNCHANGED <<bnode, bdryRun, bres, serviceOut>>
    /\ UNCHANGED <<storeVars, execVars, pingVars, transportVars, diagVars, trustVars, extraVars>>

\* bootstrap, once gatherNodeInfo has returned { success: true, nodeInfo }: the
\* failed result for an unsupported OS, or the plan and the call of
\* executeBootstrapPlan. The fact sheet lives on in the plan: os and arch as
\* such, the has* fields through the skip predicates of the steps.
BootDecide ==
    /\ bpc = "return"
    /\ IF UnsupportedOs(nodeInfo.os)
       THEN /\ bpc' = "done"
            /\ bres' = "failed"
            /\ UNCHANGED <<nodeInfo, serviceOut, execVars>>
       ELSE /\ \E steps \in PlanSteps :
                plan' = [node |-> bnode.name, trusted |-> bnode.trusted,
                         steps |-> steps, targetVersion |-> "2.0.0",
                         os |-> nodeInfo.os, arch |-> nodeInfo.arch]
            /\ dryRun' = bdryRun
            /\ stepIdx' = 1
            /\ cmdIdx' = 0
            /\ stepResults' = <<>>
            /\ sent' = <<>>
            /\ progress' = <<>>
            /\ xres' = "none"
            /\ xpc' = "loop"
            /\ bpc' = "exec"
            /\ nodeInfo' = [NoNodeInfo EXCEPT !.os = nodeInfo.os,
                                              !.arch = nodeInfo.arch,
                                              !.homeDir = nodeInfo.homeDir]
            /\ serviceOut' = Undef
            /\ UNCHANGED <<bres, fileAtStart>>
    /\ UNCHANGED <<bnode, bdryRun, probeFailed, preModes>>
    /\ UNCHANGED <<storeVars, pingVars, transportVars, diagVars, trustVars, extraVars>>

BootIdle ==
    /\ bpc = "idle"
    /\ bnode = [name |-> <<>>, trusted |-> FALSE]
    /\ bdryRun = FALSE
    /\ nodeInfo = NoNodeInfo
    /\ probeFailed = FALSE
    /\ preModes = {}
    /\ bres = "none"
    /\ serviceOut = Undef

\* stdout of the diagnostics script: complete for a running and for a
\* stopped service without raven, cut short, markers only, nothing, text
\* without the marker, an empty VERSION line, a version that is no number
DiagOutputs ==
    {<<"DIAG_START", "\n", "VERSION:", "1.2.3", "\n", "SERVICE:", "running", "\n",
       "STATUS_JSON:", "{uptime}", "\n", "DIAG_END">>,
     <<"DIAG_START", "\n", "VERSION:", "NOT_", "FOUND", "\n", "SERVICE:", "stopped",
       "\n", "STATUS_JSON:", "{}", "\n", "DIAG_END">>,
     <<"DIAG_START", "\n", "VERSION:", "raven", " ", "1.2.3">>,
     <<"DIAG_START", "\n", "DIAG_END">>,
     <<"DIAG_START">>,
     <<>>,
     <<"motd">>,
     <<"DIAG_START", "\n", "VERSION:", "\n", "SERVICE:", "running">>,
     <<"DIAG_START", "\n", "VERSION:", " ", "dev", "\n", "SERVICE:", "stopped">>}

\* stderr of the ssh child
DiagErrors == {<<>>, <<"refused">>}

\* output.match(/<marker>(.+)/): the capture group of the first match, Undef
\* if there is none
MatchAfter(out, marker) ==
    LET hits == {i \in 1..(Len(out) - 1) : out[i] = marker /\ out[i + 1] # "\n"}
    IN IF hits = {} THEN Undef
       ELSE LET i == CHOOSE h \in hits : \A g \in hits : h <= g
                ends == {j \in (i + 1)..Len(out) : out[j] = "\n"}
                last == IF ends = {} THEN Len(out)
                        ELSE (CHOOSE e \in ends : \A g \in ends : e <= g) - 1
            IN Some(SubSeq(out, i + 1, last))

\* output.match(/SERVICE:(running|stopped)/)
ServiceMatch(out) ==
    LET hits == {i \in 1..(Len(out) - 1) :
                    out[i] = "SERVICE:" /\ out[i + 1] \in {"running", "stopped"}}
    IN IF hits = {} THEN Undef
       ELSE Some(out[(CHOOSE h \in hits : \A g \in hits : h <= g) + 1])

\* parseVersion: the first x.y.z of the text, if any
parseVersion(text) ==
    LET hits == {i \in 1..Len(text) : text[i] \in {"1.2.3", "2.0.0"}}
    IN IF hits = {} THEN Undef
       ELSE Some(<<text[CHOOSE h \in hits : \A g \in hits : h <= g]>>)

\* parseUptime: the uptime of the status JSON, if it has one
parseUptime(statusJson) ==
    IF statusJson = <<"{uptime}">> THEN Some("1h") ELSE Undef

\* runNodeDiagnostics: result.exitCode !== 0 && !result.stdout.includes("DIAG_START")
OfflineExitAnyNonZero(r, out) == r.exitCode # Some(0)

OfflineExit(r, out) == r.exitCode # Some(0) /\ ~Includes(out, <<"DIAG_START">>)

OfflineDiagnostics(node, error) ==
    [online |-> FALSE, serviceRunning |-> FALSE, serviceStatus |-> "unknown",
     version |-> Undef, uptime |-> Undef, lastSeen |-> node.lastSeen,
     error |-> Some(error)]

\* runNodeDiagnostics, from the result of its sshExec on: the
\* NodeDiagnostics it returns, latencyMs left out
runNodeDiagnostics(node, r, out, stderr) ==
    IF r.timedOut THEN OfflineDiagnostics(node, <<"Connection timed out">>)
    ELSE IF OfflineExit(r, out)
    THEN OfflineDiagnostics(node, IF stderr # <<>> THEN stderr
                                  ELSE <<"SSH exit code">>)
    ELSE LET versionMatch == MatchAfter(out, "VERSION:")
             serviceMatch == ServiceMatch(out)
             statusMatch == MatchAfter(out, "STATUS_JSON:")
             serviceStatus == IF serviceMatch # Undef THEN serviceMatch[1]
                              ELSE "unknown"
         IN [online |-> TRUE,
             serviceRunning |-> (serviceStatus = "running"),
             serviceStatus |-> serviceStatus,
             version |-> IF versionMatch # Undef /\ versionMatch[1] # <<"NOT_", "FOUND">>
                         THEN IF parseVersion(versionMatch[1]) # Undef
                              THEN parseVersion(versionMatch[1])
                              ELSE Some(Trim(versionMatch[1]))
                         ELSE Undef,
             uptime |-> IF statusMatch # Undef THEN parseUptime(statusMatch[1])
                        ELSE Undef,
             lastSeen |-> Some("now"),
             error |-> Undef]

NoDiag == OfflineDiagnostics([lastSeen |-> Undef], <<>>)

\* runNodeDiagnostics(node, timeoutMs): its sshExec, which returns a result
\* or throws into the catch block, and the NodeDiagnostics it returns
Diagnose(node) ==
    /\ dpc = "idle"
    /\ \E r \in SshResults, out \in DiagOutputs, stderr \in DiagErrors, threw \in BOOLEAN :
        LET d == IF threw THEN OfflineDiagnostics(node, <<"thrown">>)
                 ELSE runNodeDiagnostics(node, r, out, stderr)
        IN /\ threw => (out = <<>> /\ stderr = <<>> /\ r = CHOOSE x \in SshResults : TRUE)
           /\ dcalls' = Append(dcalls, [trusted |-> node.trusted, result |-> r,
                                        stdout |-> out, stderr |-> stderr,
                                        threw |-> threw, seen |-> node.lastSeen,
                                        strictHostKeyChecking |-> StrictMode(node.trusted)])
           /\ diag' = d
           /\ donline' = d.online
    /\ dpc' = "done"

\* a caller runs runNodeDiagnostics on a node, trusted or not
DiagRun ==
    /\ bpc = "idle" /\ xpc = "idle" /\ ppc = "idle" /\ spc = "idle"
    /\ \E t \in BOOLEAN, seen \in {Undef, Some("old")} :
        Diagnose([trusted |-> t, lastSeen |-> seen])
    /\ UNCHANGED <<storeVars, execVars, pingVars, transportVars, bootVars, trustVars, extraVars>>

DiagIdle ==
    /\ dpc = "idle"
    /\ dcalls = <<>>
    /\ donline = FALSE
    /\ diag = NoDiag

\* ------------------------------------------------------------------------
\* The status check: fleetStatusCommand (commands/fleet/status.ts) and the
\* gateway handler fleet.status
\* ------------------------------------------------------------------------

\* the updates a status check hands to updateNode
StatusUpdates(d) ==
    [NoUpdates EXCEPT !.lastSeen = d.lastSeen,
                      !.serviceStatus = Some(d.serviceStatus)]

\* whether the caller stores the probe: diag.online in the command,
\* diag.online && diag.lastSeen in the handler
StoresProbe(via, d) ==
    IF via = "cli" THEN d.online ELSE d.online /\ d.lastSeen # Undef

\* the command or the handler is called for node "a" and looks it up
StatusStart ==
    /\ spc = "idle" /\ dpc = "idle" /\ bpc = "idle" /\ xpc = "idle" /\ ppc = "idle"
    /\ \E via \in {"cli", "gateway"} : svia' = via
    /\ snode' = getNode(file, <<"a">>)
    /\ spc' = IF getNode(file, <<"a">>) = Undef THEN "done" ELSE "probing"
    /\ fileAtStart' = file
    /\ UNCHANGED <<xpc, plan, dryRun, stepIdx, cmdIdx, stepResults, sent, progress, xres>>
    /\ UNCHANGED <<storeVars, pingVars, allButTrustVars, trustVars, rtVars, planVars, lateVars>>

\* its call of runNodeDiagnostics
StatusProbe ==
    /\ spc = "probing"
    /\ Diagnose(snode[1])
    /\ UNCHANGED <<storeVars, execVars, pingVars, transportVars, bootVars, trustVars, extraVars>>

\* what it does with the NodeDiagnostics: updateNode for a node that is
\* online
StatusStore ==
    /\ spc = "probing"
    /\ dpc = "done"
    /\ file' = IF StoresProbe(svia, diag)
               THEN updateNode(file, snode[1].name, StatusUpdates(diag))
               ELSE file
    /\ spc' = "done"
    /\ UNCHANGED <<svia, snode>>
    /\ UNCHANGED <<lock, lockAge, pc, op, snap, attempts, res, opsDone, nextId,
                   staleReclaimed, ackNames, sawName, wiped, wrote>>
    /\ UNCHANGED <<execVars, pingVars, allButTrustVars, trustVars, rtVars, planVars, lateVars>>

StatusIdle ==
    /\ spc = "idle"
    /\ svia = "none"
    /\ snode = Undef

\* ------------------------------------------------------------------------
\* The inventory file on disk: readJsonFile, loadFleetStore and the steps
\* of writeJsonFile (src/src/fleet/store.ts)
\* ------------------------------------------------------------------------

\* records of one inventory file on disk
MaxDiskNodes == 2

Writers == {"w1", "w2"}

\* what a path can hold: nothing, a file that cannot be read, text that is
\* no JSON, the first part of a JSON text, the JSON null, or a JSON object
\* with its schemaVersion and nodes
DiskOf(kind, schemaVersion, nodes) ==
    [kind |-> kind, schemaVersion |-> schemaVersion, nodes |-> nodes]

NoFile == DiskOf("missing", Undef, <<>>)

\* createEmptyFleetStore(): { schemaVersion: 1, nodes: [] }
EmptyFleetStore == [schemaVersion |-> Some(1), nodes |-> <<>>]

\* the records a file holds: one that passes FleetNodeSchema and one that
\* fails it
DiskRecords ==
    {NewNode(0, AddOp(<<"a">>, <<"h">>, DefaultPort, <<"u">>)),
     NewNode(0, AddOp(<<"b">>, <<" ", "-", "x">>, DefaultPort, <<"u">>))}

DiskNodeLists == SeqsUpTo(DiskRecords, MaxDiskNodes)

\* the files load can meet
InitialDisks ==
    {NoFile, DiskOf("unreadable", Undef, <<>>), DiskOf("text", Undef, <<>>),
     DiskOf("null", Undef, <<>>)}
    \cup {DiskOf("json", v, ns) : v \in {Some(1), Some(2), Undef}, ns \in DiskNodeLists}

\* the stores a writer hands to writeJsonFile
WrittenStores ==
    {[schemaVersion |-> Some(1), nodes |-> ns] :
        ns \in {<<>>, <<NewNode(1, AddOp(<<"b">>, <<"h">>, DefaultPort, <<"u">>))>>}}

\* JSON.stringify(value) as the content of a file
JsonFile(value) == DiskOf("json", value.schemaVersion, value.nodes)

\* the first part of JSON.stringify(value): no JSON text
PartOf(value) == DiskOf("partial", value.schemaVersion, value.nodes)

\* readJsonFile(filePath, fallback): readFile throws for a missing or
\* unreadable file, safeParseJson gives null for text that is no JSON
readJsonFile(d, fallback) ==
    IF d.kind \in {"missing", "unreadable"} THEN [value |-> fallback, exists |-> FALSE]
    ELSE IF d.kind \in {"text", "partial", "null"} THEN [value |-> fallback, exists |-> TRUE]
    ELSE [value |-> [schemaVersion |-> d.schemaVersion, nodes |-> d.nodes],
          exists |-> TRUE]

\* FleetStoreSchema.safeParse(value).success: schemaVersion is the literal 1
\* and every node passes FleetNodeSchema
StoreSchemaAnyVersion(value) == FleetStoreSchema(value.nodes)

StoreSchema(value) ==
    /\ value.schemaVersion = Some(1)
    /\ FleetStoreSchema(value.nodes)

\* loadFleetStore
loadFleetStore(d) ==
    LET value == readJsonFile(d, EmptyFleetStore).value
    IN IF ~StoreSchema(value) THEN EmptyFleetStore ELSE value

\* listNodes
listNodes(d) == loadFleetStore(d).nodes

\* getNode over loadFleetStore
getNodeOf(d, name) ==
    LET nodes == loadFleetStore(d).nodes
    IN IF FindIndex(nodes, name) = 0 THEN Undef ELSE Some(nodes[FindIndex(nodes, name)])

\* writeJsonFile: the file that fs.promises.writeFile fills
WriteTargetInventory(w) == "inventory"

WriteTarget(w) == "tmp"

\* a process calls writeJsonFile(filePath, value)
WriterStart(w) ==
    /\ wpc[w] = "idle"
    /\ \E value \in WrittenStores : wval' = [wval EXCEPT ![w] = value]
    /\ wpc' = [wpc EXCEPT ![w] = "mkdir"]
    /\ UNCHANGED <<disk, dir, tmpf, lpc, lfn, lgot, lseen>>
    /\ UNCHANGED <<storeVars, execVars, pingVars, allButTrustVars, trustVars, rtVars, planVars, statusVars, onboardVars, pinnerVars>>

\* fs.promises.mkdir(dir, { recursive: true })
WriterMkdir(w) ==
    /\ wpc[w] = "mkdir"
    /\ dir' = TRUE
    /\ wpc' = [wpc EXCEPT ![w] = "write"]
    /\ UNCHANGED <<disk, tmpf, wval, lpc, lfn, lgot, lseen>>
    /\ UNCHANGED <<storeVars, execVars, pingVars, allButTrustVars, trustVars, rtVars, planVars, statusVars, onboardVars, pinnerVars>>

\* fs.promises.writeFile(tmp, ...): the content arrives in one piece or in
\* two
WriterWrite(w) ==
    /\ wpc[w] = "write"
    /\ \E whole \in BOOLEAN :
        LET content == IF whole \/ tmpf[w] # NoFile THEN JsonFile(wval[w])
                       ELSE PartOf(wval[w])
        IN /\ IF WriteTarget(w) = "tmp"
              THEN tmpf' = [tmpf EXCEPT ![w] = content] /\ UNCHANGED disk
              ELSE disk' = content /\ UNCHANGED tmpf
           /\ wpc' = [wpc EXCEPT ![w] =
                        IF content.kind = "json" THEN "chmod" ELSE "write"]
    /\ UNCHANGED <<dir, wval, lpc, lfn, lgot, lseen>>
    /\ UNCHANGED <<storeVars, execVars, pingVars, allButTrustVars, trustVars, rtVars, planVars, statusVars, onboardVars, pinnerVars>>

\* fs.promises.chmod(tmp, 0o600)
WriterChmod(w) ==
    /\ wpc[w] = "chmod"
    /\ wpc' = [wpc EXCEPT ![w] = "rename"]
    /\ UNCHANGED <<disk, dir, tmpf, wval, lpc, lfn, lgot, lseen>>
    /\ UNCHANGED <<storeVars, execVars, pingVars, allButTrustVars, trustVars, rtVars, planVars, statusVars, onboardVars, pinnerVars>>

\* fs.promises.rename(tmp, filePath)
WriterRename(w) ==
    /\ wpc[w] = "rename"
    /\ disk' = IF WriteTarget(w) = "tmp" THEN tmpf[w] ELSE disk
    /\ tmpf' = [tmpf EXCEPT ![w] = NoFile]
    /\ wpc' = [wpc EXCEPT ![w] = "done"]
    /\ UNCHANGED <<dir, wval, lpc, lfn, lgot, lseen>>
    /\ UNCHANGED <<storeVars, execVars, pingVars, allButTrustVars, trustVars, rtVars, planVars, statusVars, onboardVars, pinnerVars>>

\* the process dies inside writeJsonFile
WriterDies(w) ==
    /\ wpc[w] \in {"mkdir", "write", "chmod", "rename"}
    /\ wpc' = [wpc EXCEPT ![w] = "dead"]
    /\ UNCHANGED <<disk, dir, tmpf, wval, lpc, lfn, lgot, lseen>>
    /\ UNCHANGED <<storeVars, execVars, pingVars, allButTrustVars, trustVars, rtVars, planVars, statusVars, onboardVars, pinnerVars>>

\* the names getNode is called with
ReadNames == {<<"a">>, <<"B">>}

\* what the reader holds: the FleetStore of loadFleetStore, the array of
\* listNodes, or the node of getNode (absent for null)
NoResult == [store |-> Undef, nodes |-> Undef, node |-> Undef]

\* a reader calls loadFleetStore, listNodes or getNode: one readFile of the
\* inventory path, no lock
DiskRead ==
    /\ \E fn \in {"load", "list", "get"}, n \in ReadNames :
        /\ lfn' = [fn |-> fn, name |-> IF fn = "get" THEN n ELSE <<>>]
        /\ lgot' = [NoResult EXCEPT
                        !.store = IF fn = "load" THEN Some(loadFleetStore(disk)) ELSE @,
                        !.nodes = IF fn = "list" THEN Some(listNodes(disk)) ELSE @,
                        !.node = IF fn = "get" THEN getNodeOf(disk, n) ELSE @]
    /\ lseen' = disk
    /\ lpc' = "done"
    /\ UNCHANGED <<disk, dir, tmpf, wpc, wval>>
    /\ UNCHANGED <<storeVars, execVars, pingVars, allButTrustVars, trustVars, rtVars, planVars, statusVars, onboardVars, pinnerVars>>

DiskIdle ==
    /\ dir = FALSE
    /\ tmpf = [w \in Writers |-> NoFile]
    /\ wpc = [w \in Writers |-> "idle"]
    /\ wval = [w \in Writers |-> EmptyFleetStore]
    /\ lpc = "idle"
    /\ lfn = [fn |-> "none", name |-> <<>>]
    /\ lgot = NoResult
    /\ lseen = NoFile

\* ------------------------------------------------------------------------
\* The commands an operator runs on a new node: fleetAddCommand, ping
\* (once or again) and fleetBootstrapCommand
\* ------------------------------------------------------------------------

\* ping commands of one operator
MaxPings == 2

\* addNode called by a process that meets no contention: validation,
\* ensureJsonFile, the locked read, the duplicate check and the write as one
\* step; the result is the inventory file it leaves
addNode(f, id, input) ==
    IF ~ValidOp(input) THEN f
    ELSE LET ensured == IF f.exists THEN f ELSE FileOf(createEmptyFleetStore)
             store == ReadStore(ensured)
         IN IF FindIndex(store, input.name) # 0 THEN ensured
            ELSE FileOf(Append(store, NewNode(id, input)))

\* fleetAddCommand: addNode with trusted: false
CliAdd ==
    /\ ppc = "idle" /\ bcmd = "none" /\ pings = 0
    /\ nextId = 1
    /\ file' = addNode(file, nextId, AddOp(<<"a">>, <<"h">>, DefaultPort, <<"u">>))
    /\ nextId' = nextId + 1
    /\ UNCHANGED <<lock, lockAge, pc, op, snap, attempts, res, opsDone,
                   staleReclaimed, ackNames, sawName, wiped, wrote>>
    /\ UNCHANGED <<execVars, pingVars, allButTrustVars, trustVars, rtVars, planVars,
                   statusVars, diskVars, onboardVars, pinnerVars>>

\* the ping before this one: none yet
NoPing ==
    [name |-> <<>>, trust |-> FALSE, status |-> "none", pinned |-> <<>>,
     res |-> "none"]

\* the ping command has ended and the operator is back at the prompt
PingEnd ==
    /\ ppc = "done" /\ bcmd = "none"
    /\ pings' = pings + 1
    /\ prev' = [name |-> pname, trust |-> trustHostKeyChange,
                status |-> hostKeyStatus, res |-> pres,
                pinned |-> IF hostKeyStatus \in {"new", "changed"}
                           THEN parseKeyscanOutput(scan.output, pnode[1].host,
                                                   pnode[1].port)
                           ELSE <<>>]
    /\ ppc' = "idle"
    /\ pname' = <<>>
    /\ pnode' = Undef
    /\ trustHostKeyChange' = FALSE
    /\ existingKey' = Undef
    /\ scan' = NoScan
    /\ toPin' = <<>>
    /\ hostKeyStatus' = "none"
    /\ sshCalls' = <<>>
    /\ pres' = "none"
    /\ khAtStart' = kh
    /\ UNCHANGED <<kh, bcmd>>
    /\ UNCHANGED <<storeVars, execVars, allButTrustVars, trustVars, rtVars, planVars,
                   statusVars, diskVars, pinnerVars>>

\* fleetBootstrapCommand up to its trust check: getNode, "Node not found",
\* "is not trusted", or on to preflight
BootCommand ==
    /\ ppc = "idle" /\ bcmd = "none"
    /\ bcmd' = IF getNode(file, <<"a">>) = Undef THEN "notfound"
               ELSE IF ~getNode(file, <<"a">>)[1].trusted THEN "refused"
               ELSE "accepted"
    /\ UNCHANGED <<pings, prev>>
    /\ UNCHANGED <<storeVars, execVars, pingVars, allButTrustVars, trustVars, rtVars,
                   planVars, statusVars, diskVars, pinnerVars>>

\* the ping command, while there is no bootstrap yet
OnboardPing == bcmd = "none" /\ pings < MaxPings /\ PingStart

OnboardIdle ==
    /\ bcmd = "none"
    /\ pings = 0
    /\ prev = NoPing

\* ------------------------------------------------------------------------
\* Two processes that call pinHostKey at the same time
\* ------------------------------------------------------------------------

Pinners == {"q1", "q2"}

\* the entries the two processes pin: plain hosts, two ports, two key types
PinnerEntries ==
    {HostKeyEntry(h, p, t, k) :
        h \in {<<"h">>, <<"g">>}, p \in {DefaultPort, 23},
        t \in {"ssh-ed25519", "ssh-rsa"}, k \in {"K1", "K2"}}

\* the known_hosts files the two processes can start from
PinnerFiles ==
    {Undef,
     saveKnownHosts(<<HostKeyEntry(<<"h">>, DefaultPort, "ssh-ed25519", "K1")>>),
     saveKnownHosts(<<HostKeyEntry(<<"f">>, DefaultPort, "ssh-rsa", "K3")>>)}

\* pinHostKey(entry) begins: loadKnownHosts
PinnerLoad(q) ==
    /\ qpc[q] = "idle"
    /\ \E e \in PinnerEntries : qent' = [qent EXCEPT ![q] = e]
    /\ qsnap' = [qsnap EXCEPT ![q] = loadKnownHosts(qfile)]
    /\ qafter' = [qafter EXCEPT ![q] = {r \in Pinners : qpc[r] = "done"}]
    /\ qpc' = [qpc EXCEPT ![q] = "loaded"]
    /\ UNCHANGED <<qfile, qlast>>
    /\ UNCHANGED <<storeVars, execVars, pingVars, allButTrustVars, trustVars, rtVars,
                   planVars, statusVars, diskVars, onboardVars>>

\* pinHostKey(entry) ends: the filter, the push and saveKnownHosts, whose
\* rename publishes the file
PinnerSave(q) ==
    /\ qpc[q] = "loaded"
    /\ qfile' = saveKnownHosts(pinHostKey(qsnap[q], qent[q]))
    /\ qlast' = Some(q)
    /\ qpc' = [qpc EXCEPT ![q] = "done"]
    /\ UNCHANGED <<qent, qsnap, qafter>>
    /\ UNCHANGED <<storeVars, execVars, pingVars, allButTrustVars, trustVars, rtVars,
                   planVars, statusVars, diskVars, onboardVars>>

PinnersIdle ==
    /\ qpc = [q \in Pinners |-> "idle"]
    /\ qent = [q \in Pinners |-> NoEntry]
    /\ qsnap = [q \in Pinners |-> <<>>]
    /\ qafter = [q \in Pinners |-> {}]
    /\ qlast = Undef

StoreInit ==
    /\ file \in InitialFiles
    /\ lock = NoProc
    /\ lockAge = 0
    /\ pc = [p \in Procs |-> "idle"]
    /\ op = [p \in Procs |-> NoOp]
    /\ snap = [p \in Procs |-> <<>>]
    /\ attempts = [p \in Procs |-> 0]
    /\ res = [p \in Procs |-> "none"]
    /\ opsDone = 0
    /\ nextId = 1
    /\ staleReclaimed = FALSE
    /\ ackNames = {normalizeNodeName(file.nodes[i].name) : i \in 1..Len(file.nodes)}
    /\ sawName = [p \in Procs |-> FALSE]
    /\ wiped = FALSE
    /\ wrote = [p \in Procs |-> FALSE]

Init == StoreInit /\ ExecIdle /\ kh = <<>> /\ PingIdle /\ TransportIdle
        /\ BootIdle /\ DiagIdle /\ khFile = Undef /\ TrustIdle /\ RoundTripIdle /\ PlanIdle /\ StatusIdle /\ disk = NoFile /\ DiskIdle /\ OnboardIdle /\ qfile = Undef /\ PinnersIdle

\* ping starts from any of the known_hosts files
PingInit == StoreInit /\ ExecIdle /\ kh \in InitialKnownHosts /\ PingIdle
            /\ TransportIdle /\ BootIdle /\ DiagIdle /\ khFile = Undef /\ TrustIdle /\ RoundTripIdle /\ PlanIdle /\ StatusIdle /\ disk = NoFile /\ DiskIdle /\ OnboardIdle /\ qfile = Undef /\ PinnersIdle

Next ==
    \/ \E p \in Procs : BeginOp(p)
    \/ \E p \in Procs : EnsureAccess(p)
    \/ \E p \in Procs : EnsureWrite(p)
    \/ \E p \in Procs : AcquireLock(p)
    \/ \E p \in Procs : ReadAndApply(p)
    \/ \E p \in Procs : WriteStore(p)
    \/ \E p \in Procs : ReleaseLock(p)
    \/ Tick

Spec == Init /\ [][Next]_vars

\* one run of the bootstrap executor against the inventory
ExecNext ==
    \/ ExecStart
    \/ ExecLoop
    \/ ExecCommand
    \/ ExecFinish

ExecSpec == Init /\ [][ExecNext]_vars

\* one run of the ping command
PingNext ==
    \/ PingStart
    \/ PingScan
    \/ PingPin
    \/ PingExec

PingSpec == PingInit /\ [][PingNext]_vars

\* calls of the transport functions, one after the other
TransportNext ==
    \/ TransportCall
    \/ ChildExits
    \/ TimerFires
    \/ ExitEvent
    \/ ErrorEvent

TransportSpec == Init /\ [][TransportNext]_vars

\* the host-keys functions, one call after the other, on a known_hosts file
\* that does not exist yet or was written by hand
TrustInit == StoreInit /\ ExecIdle /\ kh = <<>> /\ PingIdle /\ TransportIdle
             /\ BootIdle /\ DiagIdle /\ khFile \in {Undef, Some(HandWritten)}
             /\ TrustIdle /\ RoundTripIdle /\ PlanIdle /\ StatusIdle /\ disk = NoFile /\ DiskIdle /\ OnboardIdle /\ qfile = Undef /\ PinnersIdle /\ file = Missing

TrustNext ==
    \/ TrustPin
    \/ TrustGet
    \/ TrustHasChanged

TrustSpec == TrustInit /\ [][TrustNext]_vars

\* the two compositions of formatKnownHosts and parseKnownHosts
RoundTripNext ==
    \/ FormatThenParse
    \/ ParseThenFormat

RoundTripInit == Init /\ file = Missing

RoundTripSpec == RoundTripInit /\ [][RoundTripNext]_vars

\* a plan is built for a node of the inventory, possibly rendered, and
\* possibly executed
PlanInit == Init /\ getNode(file, <<"a">>) # Undef

PlanNext ==
    \/ PlanBuild
    \/ PlanFormat
    \/ PlanExecute
    \/ ExecLoop
    \/ ExecCommand
    \/ ExecFinish

PlanSpec == PlanInit /\ [][PlanNext]_vars

\* readers and writers of one inventory file
DiskInit ==
    /\ StoreInit /\ file = Missing /\ ExecIdle /\ kh = <<>> /\ PingIdle
    /\ TransportIdle /\ BootIdle /\ DiagIdle /\ khFile = Undef /\ TrustIdle
    /\ RoundTripIdle /\ PlanIdle /\ StatusIdle
    /\ disk \in InitialDisks
    /\ DiskIdle
    /\ OnboardIdle
    /\ qfile = Undef
    /\ PinnersIdle

DiskNext ==
    \/ \E w \in Writers :
        \/ WriterStart(w)
        \/ WriterMkdir(w)
        \/ WriterWrite(w)
        \/ WriterChmod(w)
        \/ WriterRename(w)
        \/ WriterDies(w)
    \/ DiskRead

DiskSpec == DiskInit /\ [][DiskNext]_vars

\* two processes, each calling pinHostKey once
PinnersInit ==
    /\ StoreInit /\ file = Missing /\ ExecIdle /\ kh = <<>> /\ PingIdle
    /\ TransportIdle /\ BootIdle /\ DiagIdle /\ khFile = Undef /\ TrustIdle
    /\ RoundTripIdle /\ PlanIdle /\ StatusIdle /\ disk = NoFile /\ DiskIdle
    /\ OnboardIdle
    /\ qfile \in PinnerFiles
    /\ PinnersIdle

PinnersNext ==
    \/ \E q \in Pinners : PinnerLoad(q)
    \/ \E q \in Pinners : PinnerSave(q)

PinnersSpec == PinnersInit /\ [][PinnersNext]_vars

\* an operator adds node "a", pings it, once or again, and bootstraps it
OnboardNext ==
    \/ CliAdd
    \/ OnboardPing
    \/ PingScan
    \/ PingPin
    \/ PingExec
    \/ PingEnd
    \/ BootCommand

OnboardSpec == PingInit /\ [][OnboardNext]_vars

\* one status check of node "a", by the command or by the gateway
StatusNext ==
    \/ StatusStart
    \/ StatusProbe
    \/ StatusStore

StatusSpec == Init /\ [][StatusNext]_vars

\* the ping command, started when no other command runs
CliPing == bpc = "idle" /\ dpc = "idle" /\ xpc = "idle" /\ spc = "idle" /\ PingStart

\* one of the operations that talk to a node: bootstrap (preflight, then the
\* executor), the ping command, or runNodeDiagnostics
CliNext ==
    \/ BootStart
    \/ PreflightUname
    \/ PreflightProbe
    \/ PreflightService
    \/ PreflightRunning
    \/ BootDecide
    \/ ExecLoop
    \/ ExecCommand
    \/ ExecFinish
    \/ CliPing
    \/ PingScan
    \/ PingPin
    \/ PingExec
    \/ DiagRun

CliSpec == Init /\ [][CliNext]_vars

\* ------------------------------------------------------------------------
\* Properties of the inventory store
\* ------------------------------------------------------------------------

Quiescent == \A p \in Procs : pc[p] \in {"idle", "done"}

\* the normalized names of the records in the inventory file
FileNames == {normalizeNodeName(file.nodes[i].name) : i \in 1..Len(file.nodes)}

InSection(p) == pc[p] \in {"read", "write", "release"}

\* C1: no lost update. Once every operation has returned, every name a
\* successful add stored (and no successful remove took away) is in the
\* inventory file; stated for runs in which no lock went stale and no read
\* discarded a file that failed the schema.
C1_NoLostUpdate ==
    (Quiescent /\ ~staleReclaimed /\ ~wiped) => ackNames \subseteq FileNames

\* C3: no record of the inventory file has a host that begins with '-'.
C3_NoDashHost ==
    \A i \in 1..Len(file.nodes) : ~StartsWith(file.nodes[i].host, "-")

\* no two records of the inventory file have the same normalized name
NoCaseDuplicates ==
    \A i, j \in 1..Len(file.nodes) :
        i # j => normalizeNodeName(file.nodes[i].name)
                    # normalizeNodeName(file.nodes[j].name)

\* C7: names are unique case-insensitively in every state, and an add that
\* read a file already holding its name (up to case) ends with the
\* duplicate-name error and writes nothing.
C7_CaseInsensitiveUnique ==
    /\ NoCaseDuplicates
    /\ \A p \in Procs :
        sawName[p] => (pc[p] = "release" /\ res[p] = "duplicate")

\* C8: unless a held lock was reclaimed as stale, at most one process is
\* inside the locked section.
C8_MutualExclusion ==
    ~staleReclaimed => Cardinality({p \in Procs : InSection(p)}) <= 1

\* C8 witness: one process is in the section while another has already been
\* turned away from the lock.
C8_Witness ==
    \E p, q \in Procs :
        p # q /\ InSection(p) /\ pc[q] = "lock" /\ attempts[q] > 0
        /\ ~staleReclaimed

\* C9: a process that is not inside an operation does not hold the lock,
\* whichever way its operation ended.
C9_LockReleased ==
    \A p \in Procs : pc[p] \in {"idle", "done"} => lock # p

\* C9 witness: an add ended with the duplicate-name error inside the locked
\* section and another process holds the lock afterwards.
C9_Witness ==
    \E p, q \in Procs :
        /\ p # q
        /\ pc[p] = "done" /\ res[p] = "duplicate"
        /\ lock = q /\ pc[q] = "read"
        /\ ~staleReclaimed

\* C10: a process waiting for the lock can always make its next attempt;
\* an attempt that leaves it waiting uses up one retry, and the retries used
\* never exceed 10, so it stops waiting after at most 11 attempts; the
\* operation that is turned away for the last time ends with the lock error,
\* having used exactly 10 retries against a lock that was held and not
\* stale, and leaves the file and the lock as they were.
C10_BoundedRetry ==
    /\ [](\A p \in Procs :
            /\ attempts[p] <= 10
            /\ pc[p] = "lock" => ENABLED AcquireLock(p)
            /\ res[p] = "ELOCKED" => (pc[p] = "done" /\ attempts[p] = 10))
    /\ [][\A p \in Procs :
            /\ (AcquireLock(p) /\ pc'[p] = "lock") =>
                    attempts'[p] = attempts[p] + 1
            /\ (res[p] # "ELOCKED" /\ res'[p] = "ELOCKED") =>
                    (file' = file /\ lock' = lock /\ lock # NoProc /\ ~IsStale)]_vars

\* C10 witness: an operation ended with the lock error.
C10_Witness ==
    \E p \in Procs : pc[p] = "done" /\ res[p] = "ELOCKED"

\* ------------------------------------------------------------------------
\* Properties of the bootstrap executor
\* ------------------------------------------------------------------------

\* the stored record of the plan's node, when the inventory holds one
PlanNodeStored == FindIndex(ReadStore(file), plan.node) # 0

PlanNodeRecord == ReadStore(file)[FindIndex(ReadStore(file), plan.node)]

ExecSucceeded == xpc = "done" /\ xres = "success" /\ ~dryRun

\* C2: after a successful non-dry-run plan the stored record of the plan's
\* node has the target version as installed version, service status
\* "running" and the os and arch of the plan's fact sheet.
C2_StoredAfterSuccess ==
    (ExecSucceeded /\ PlanNodeStored) =>
        /\ PlanNodeRecord.installed # Undef
        /\ PlanNodeRecord.installed[1].version = plan.targetVersion
        /\ PlanNodeRecord.serviceStatus = Some("running")
        /\ PlanNodeRecord.os = Some(plan.os)
        /\ PlanNodeRecord.arch = Some(plan.arch)

\* a command that was sent exited zero within its time
SentOk(e) == e.result.exitCode = Some(0) /\ ~e.result.timedOut

\* C5: steps run strictly in plan order. Before any command of a step is
\* sent, every earlier step was skipped or had each of its commands sent and
\* exit zero; a command that failed is the last one sent; the step results
\* are a prefix of the plan in plan order, only the last of them can be
\* failed, and a failed result ends the execution.
C5_StepOrder ==
    /\ \A i \in 1..Len(sent) :
        /\ \A st \in 1..(sent[i].step - 1) :
            \/ plan.steps[st].skip
            \/ \A c \in 1..plan.steps[st].ncmds :
                \E j \in 1..(i - 1) :
                    sent[j].step = st /\ sent[j].cmd = c /\ SentOk(sent[j])
        /\ \A j \in 1..(i - 1) :
            /\ SentOk(sent[j])
            /\ \/ sent[j].step < sent[i].step
               \/ sent[j].step = sent[i].step /\ sent[j].cmd < sent[i].cmd
    /\ Len(stepResults) <= Len(plan.steps)
    /\ \A k \in 1..Len(stepResults) :
        /\ stepResults[k].step = k
        /\ stepResults[k].status = "failed" =>
            (k = Len(stepResults) /\ xpc = "done" /\ xres = "failed")
    /\ xres = "failed" =>
        /\ Len(stepResults) >= 1
        /\ stepResults[Len(stepResults)].status = "failed"
        /\ Len(sent) >= 1
        /\ sent[Len(sent)].step = Len(stepResults)
        /\ ~SentOk(sent[Len(sent)])

\* C5 witness: a plan was aborted by the failure of its second step, after
\* a first step of two commands, with a step still to come.
C5_Witness ==
    /\ xres = "failed"
    /\ Len(stepResults) = 2
    /\ Len(plan.steps) = 3
    /\ plan.steps[1].ncmds = 2 /\ ~plan.steps[1].skip
    /\ Len(sent) = 3

\* C6: the executor leaves the inventory file as it found it, except at the
\* end of a non-dry-run execution with no failed step; and a time-out of
\* the first command of the first step gives a failed result with exactly
\* one step result, failed.
C6_StoreUntouched ==
    /\ (xpc /= "idle" /\ ~ExecSucceeded) => file = fileAtStart
    /\ (Len(sent) >= 1 /\ sent[1].step = 1 /\ sent[1].cmd = 1
            /\ sent[1].result.timedOut) =>
        /\ xpc = "done" /\ xres = "failed"
        /\ Len(stepResults) = 1
        /\ stepResults[1].status = "failed"
        /\ file = fileAtStart

\* C6 witness: the first command timed out although the child exited zero,
\* for a node that is in the inventory.
C6_Witness ==
    /\ xpc = "done" /\ xres = "failed"
    /\ PlanNodeStored
    /\ sent[1].step = 1 /\ sent[1].result.timedOut
    /\ sent[1].result.exitCode = Some(0)


\* ------------------------------------------------------------------------
\* Properties of ping (PingSpec)
\* ------------------------------------------------------------------------

\* the keys parseKeyscanOutput finds in what the scan printed
ScannedKeys == parseKeyscanOutput(scan.output, pnode[1].host, pnode[1].port)

\* one of the scanned keys has the algorithm and the key of the entry
\* getHostKey returned
ScanMatchesPinned ==
    \E i \in 1..Len(ScannedKeys) :
        /\ ScannedKeys[i].keyType = existingKey[1].keyType
        /\ ScannedKeys[i].key = existingKey[1].key

\* the scan is in, an entry was pinned for the node's address, the scan
\* printed keys none of which is the pinned one, and the override is not set
ChangedKeyNoOverride ==
    /\ ppc \in {"pin", "exec", "done"}
    /\ pnode # Undef
    /\ existingKey # Undef
    /\ ScannedKeys # <<>>
    /\ ~ScanMatchesPinned
    /\ ~trustHostKeyChange

\* ping stopped with a failure before sshExec, with known_hosts and the
\* inventory as they were
PingAborted ==
    /\ ppc = "done"
    /\ pres = "failed"
    /\ sshCalls = <<>>
    /\ kh = khAtStart
    /\ file = fileAtStart

\* C4: when an entry is pinned for the node's host and port, the re-scan
\* returns keys none of which has the algorithm and key of the pinned
\* preferred entry, and the override flag is not set, ping aborts with a
\* failure: no remote command is executed, known_hosts is unchanged and the
\* node record is unchanged.
C4_ChangedKeyAborts == ChangedKeyNoOverride => PingAborted

\* C4, for the scans that exit with code 0: the same statement holds when
\* ssh-keyscan ended normally, so the divergence is confined to the scans
\* that fail or time out after printing keys.
C4_AbortsWhenScanExitsZero ==
    (ChangedKeyNoOverride /\ scan.exitCode = Some(0)) => PingAborted

\* a changed key was refused after a scan that exited with code 0
C4_RefusedWitness ==
    /\ ChangedKeyNoOverride
    /\ scan.exitCode = Some(0)
    /\ PingAborted
    /\ Len(ScannedKeys) = 2


\* ------------------------------------------------------------------------
\* Properties of the transport (TransportSpec)
\* ------------------------------------------------------------------------

\* the message of a transport result: stderr of sshExec, error of sshKeyscan
ResultMessage == IF tfn = "sshExec" THEN tresult[1].stderr ELSE tresult[1].error

\* C11: a call of sshExec or sshKeyscan with a host that begins with '-'
\* returns at once a result with exit code 1 and the rejection message, and
\* spawns no child process.
C11_DashHostRejected ==
    (tfn # "none" /\ StartsWith(thost, "-")) =>
        /\ tpc = "resolved"
        /\ resolves = 1
        /\ spawned = 0
        /\ child = "none"
        /\ tresult # Undef
        /\ tresult[1].exitCode = Some(1)
        /\ ResultMessage = RejectionMessage

\* C11 witness: sshKeyscan was called with "-o" after sshExec was called
\* with "-", and both were rejected.
C11_Witness ==
    /\ tcalls = 2
    /\ tfn = "sshKeyscan"
    /\ thost = <<"-", "o">>
    /\ tpc = "resolved"
    /\ spawned = 0
    /\ tresult = Some(KeyscanResult(Some(1), RejectionMessage))

\* the events the current call has handled: timer, exit and error
Handled == SelectSeq(tevents, LAMBDA e : e \in {"timer", "exit", "error"})

\* sshExec hands its caller at most one result, and exactly one once an
\* 'exit' or 'error' event has been handled; while it has handed none, an
\* event is still to come
ResolvesOnce ==
    tfn = "sshExec" =>
        /\ resolves <= 1
        /\ (resolves = 1) = (tpc = "resolved")
        /\ (tpc = "resolved") = (tresult # Undef)
        /\ (\E i \in 1..Len(Handled) : Handled[i] \in {"exit", "error"}) => resolves = 1
        /\ tpc = "running" =>
              \/ timer = "armed"
              \/ child \in {"alive", "nospawn"}
              \/ (child \in {"exited", "killed"} /\ ~exitSeen)

\* the 'exit' event was handled before the timer fired: the timer is
\* cancelled and the result has timedOut false and the child's exit code
ExitFirstOk ==
    (tfn = "sshExec" /\ Len(Handled) >= 1 /\ Handled[1] = "exit") =>
        /\ timer = "cleared"
        /\ tresult = Some(SshExecResult(childCode, "none", FALSE, ""))

\* the spawn failed: a result with exit code 1, nothing raised
SpawnFailureOk ==
    (tfn = "sshExec" /\ child = "failed") =>
        /\ tresult # Undef
        /\ tresult[1].exitCode = Some(1)

\* the timer fired before any 'exit' event was handled, and the call has
\* resolved: the result has timedOut true
TimerFirstOk ==
    (tfn = "sshExec" /\ Len(Handled) >= 1 /\ Handled[1] = "timer"
        /\ tpc = "resolved") =>
        tresult[1].timedOut

\* C12: every sshExec call resolves exactly once whatever the order of the
\* timer, exit and error events; a timer that fires before the child's exit
\* is handled gives timedOut true, an exit handled first cancels the timer
\* and gives timedOut false with the child's exit code, and a spawn failure
\* gives a result with exit code 1.
C12_ResolvesOnceWithVerdict ==
    /\ ResolvesOnce
    /\ ExitFirstOk
    /\ SpawnFailureOk
    /\ TimerFirstOk

\* C12, apart from the timer-then-error order: the statement holds in every
\* state in which no 'error' event followed the timer.
C12_HoldsWithoutKillError ==
    (Len(Handled) >= 2 /\ Handled[1] = "timer" /\ Handled[2] = "error")
        \/ C12_ResolvesOnceWithVerdict

\* a timer fired on a live child, the kill took effect and the exit event
\* gave the result with timedOut true and exit code null
C12_KilledWitness ==
    /\ tfn = "sshExec"
    /\ Handled = <<"timer", "exit">>
    /\ tresult = Some(SshExecResult(Undef, "SIGKILL", TRUE, ""))

\* ------------------------------------------------------------------------
\* Properties of preflight, bootstrap and the call sites of sshExec
\* ------------------------------------------------------------------------

\* the mode the callers are to pick for a node
ExpectedMode(trusted) == IF trusted THEN "yes" ELSE "accept-new"

AllModes ==
    {sent[i].strictHostKeyChecking : i \in 1..Len(sent)}
      \cup preModes
      \cup {dcalls[i].strictHostKeyChecking : i \in 1..Len(dcalls)}
      \cup {sshCalls[i].strictHostKeyChecking : i \in 1..Len(sshCalls)}

\* C13: every sshExec call for a trusted node uses strict verification
\* ("yes"); calls for an untrusted node use "accept-new" in preflight, the
\* executor and diagnostics, and "yes" in ping, which has pinned the key by
\* then; no call site passes "no"
C13_ModeFollowsTrust ==
    /\ \A i \in 1..Len(sent) :
        sent[i].strictHostKeyChecking = ExpectedMode(plan.trusted)
    /\ \A m \in preModes : m = ExpectedMode(bnode.trusted)
    /\ \A i \in 1..Len(dcalls) :
        dcalls[i].strictHostKeyChecking = ExpectedMode(dcalls[i].trusted)
    /\ \A i \in 1..Len(sshCalls) :
        /\ sshCalls[i].strictHostKeyChecking = "yes"
        /\ getHostKey(kh, sshCalls[i].host, pnode[1].port) # Undef
    /\ "no" \notin AllModes

\* bootstrap of a trusted node has sent preflight and step commands
C13_Witness ==
    /\ bpc = "exec"
    /\ plan.trusted
    /\ preModes = {"yes"}
    /\ Len(sent) > 0
    /\ sent[1].strictHostKeyChecking = "yes"

\* C14: gatherNodeInfo returns a fact sheet only if none of its round trips
\* failed (timed out, or exited non-zero with nothing on stdout), the node,
\* npm and raven probes included, and only with a home directory
C14_FailedProbeAborts ==
    bpc = "return" => (~probeFailed /\ nodeInfo.homeDir # <<>>)

\* the part of C14 the code keeps: no fact sheet without a home directory,
\* and none after a uname round trip that exited non-zero or was killed
C14_EmptyHomeFails ==
    bpc \in {"node", "npm", "raven", "service", "running", "return", "exec"}
        => (nodeInfo.homeDir # <<>> /\ nodeInfo.os # "")

C14_EmptyHomeWitness == bpc = "done" /\ bres = "failed" /\ nodeInfo.os = ""

\* C15: when preflight classifies the OS as unknown, bootstrap returns a
\* failed result with an empty step list, no step command is sent and the
\* inventory is as it was
C15_UnknownOsStopsBootstrap ==
    (bpc \in {"exec", "done"} /\ nodeInfo.os = "unknown") =>
        /\ bpc = "done"
        /\ bres = "failed"
        /\ xpc = "idle"
        /\ stepResults = <<>>
        /\ sent = <<>>
        /\ file = fileAtStart

\* preflight ran to its end on an OS that is neither darwin nor linux
C15_Witness ==
    /\ bpc = "done"
    /\ bres = "failed"
    /\ nodeInfo.os = "unknown"
    /\ nodeInfo.hasNode
    /\ nodeInfo.homeDir # <<>>
    /\ stepResults = <<>>

\* ------------------------------------------------------------------------
\* Properties of the executor: dry run and progress reports
\* ------------------------------------------------------------------------

\* C16: in dry-run mode the executor calls sshExec zero times, records every
\* step whose skip predicate is false as success and every other step as
\* skipped, and returns one result per plan step in plan order
C16_DryRunSendsNothing ==
    (dryRun /\ xpc # "idle") =>
        /\ sent = <<>>
        /\ Len(stepResults) <= Len(plan.steps)
        /\ \A i \in 1..Len(stepResults) :
            /\ stepResults[i].step = i
            /\ stepResults[i].status =
                   IF plan.steps[i].skip THEN "skipped" ELSE "success"
        /\ xpc = "done" => (xres = "success" /\ Len(stepResults) = Len(plan.steps))

\* a dry run has returned a plan with a skipped and a previewed step
C16_Witness ==
    /\ dryRun
    /\ xpc = "done"
    /\ \E i, j \in 1..Len(stepResults) :
        stepResults[i].status = "skipped" /\ stepResults[j].status = "success"

\* the statuses onProgress got for step i, in order
ReportsOf(i) ==
    LET mine == SelectSeq(progress, LAMBDA e : e[1] = i)
    IN [k \in 1..Len(mine) |-> mine[k][2]]

TerminalStatus == {"skipped", "success", "failed"}

\* C17: for each step onProgress gets [skipped] when the skip predicate
\* holds, else [running, success] or [running, failed]; nothing is reported
\* for a step before every earlier step got its terminal status, nothing
\* after a terminal status of the same step, and the recorded result of a
\* step carries the last status reported for it
C17_ProgressPerStep ==
    /\ \A i \in 1..Len(plan.steps) :
        /\ ReportsOf(i) \in {<<>>, <<"skipped">>, <<"running">>,
                             <<"running", "success">>, <<"running", "failed">>}
        /\ ReportsOf(i) # <<>> => (ReportsOf(i) = <<"skipped">> <=> plan.steps[i].skip)
        /\ (xpc = "done" /\ ReportsOf(i) # <<>>) =>
               ReportsOf(i)[Len(ReportsOf(i))] \in TerminalStatus
    /\ \A j \in 1..Len(progress) :
        /\ progress[j][1] \in 1..Len(plan.steps)
        /\ \A n \in 1..(progress[j][1] - 1) :
            \E k \in 1..(j - 1) :
                progress[k][1] = n /\ progress[k][2] \in TerminalStatus
    /\ \A i \in 1..Len(stepResults) :
        LET reports == ReportsOf(stepResults[i].step)
        IN /\ reports # <<>>
           /\ reports[Len(reports)] = stepResults[i].status
    /\ \A i \in 1..Len(plan.steps) :
        (ReportsOf(i) # <<>> /\ ReportsOf(i)[Len(ReportsOf(i))] \in TerminalStatus)
            => \E k \in 1..Len(stepResults) : stepResults[k].step = i

\* a run that skipped a step, completed a step and then failed one
C17_Witness ==
    /\ xpc = "done"
    /\ \E i, j, k \in 1..Len(plan.steps) :
        /\ ReportsOf(i) = <<"skipped">>
        /\ ReportsOf(j) = <<"running", "success">>
        /\ ReportsOf(k) = <<"running", "failed">>

\* ------------------------------------------------------------------------
\* Properties of the known_hosts file
\* ------------------------------------------------------------------------

\* the entries a reader of the file finds
PinnedNow == loadKnownHosts(khFile)

PinnedBefore == loadKnownHosts(tbefore)

SameTuple(e) ==
    e.host = targ.host /\ e.port = targ.port /\ e.keyType = targ.keyType

OtherTuple(e) == ~SameTuple(e)

SameAddress(e) == e.host = targ.host /\ e.port = targ.port

\* what C18 says of the last pin
PinContract ==
    /\ Cardinality({i \in 1..Len(PinnedNow) : SameTuple(PinnedNow[i])}) = 1
    /\ \A i \in 1..Len(PinnedNow) :
        SameTuple(PinnedNow[i]) => PinnedNow[i].key = targ.key
    /\ SelectSeq(PinnedNow, OtherTuple) = SelectSeq(PinnedBefore, OtherTuple)
    /\ saveKnownHosts(pinHostKey(PinnedNow, targ)) = khFile

\* C18: pin(e) leaves exactly one entry for e's (host, port, algorithm), with
\* e's key, leaves the entries of every other tuple as they were, and
\* pinning e once more gives the same file
C18_PinLeavesOneEntry == top = "pin" => PinContract

\* a host that formatHostEntry and parseHostEntry carry unchanged
PlainHost(host) ==
    /\ host # <<>>
    /\ \A i \in 1..Len(host) : host[i] \notin {"[", "]", "#", " "}

\* the part of C18 the code keeps: the same for a host name that is not in
\* the bracket form of known_hosts
C18_HoldsForPlainHosts == (top = "pin" /\ PlainHost(targ.host)) => PinContract

\* an entry was pinned over a different key of its tuple, next to an entry of
\* another algorithm
C18_RepinnedWitness ==
    /\ top = "pin"
    /\ PlainHost(targ.host)
    /\ \E i \in 1..Len(PinnedBefore) :
        SameTuple(PinnedBefore[i]) /\ PinnedBefore[i].key # targ.key
    /\ \E i \in 1..Len(PinnedNow) :
        SameAddress(PinnedNow[i]) /\ OtherTuple(PinnedNow[i])

\* C19: hasHostKeyChanged(candidate) returns null exactly when no entry is
\* pinned for the candidate's host and port; otherwise false exactly when the
\* entry getHostKey surfaces has the candidate's algorithm and key, and true
\* in every other case
C19_ChangedVerdict ==
    top = "hasChanged" =>
        LET pinned == \E i \in 1..Len(PinnedNow) : SameAddress(PinnedNow[i])
            got == getHostKey(PinnedNow, targ.host, targ.port)
        IN /\ tchanged \in {"null", "false", "true"}
           /\ tchanged = "null" <=> ~pinned
           /\ pinned =>
               (tchanged = "false" <=>
                   (got[1].keyType = targ.keyType /\ got[1].key = targ.key))

\* the candidate is pinned under its own algorithm, yet the verdict is
\* "changed" because getHostKey surfaces the entry of a preferred algorithm
C19_Witness ==
    /\ top = "hasChanged"
    /\ tchanged = "true"
    /\ \E i \in 1..Len(PinnedNow) :
        SameTuple(PinnedNow[i]) /\ PinnedNow[i].key = targ.key

MinOf(S) == CHOOSE x \in S : \A y \in S : x <= y

\* C20: getHostKey(host, port) returns null iff no entry has that host and
\* port; otherwise the ssh-ed25519 entry of the address if there is one, else
\* its ssh-rsa entry if there is one, else the first entry of the address in
\* the file, wherever in the file the preferred entry stands
C20_GetPrefers ==
    top = "get" =>
        LET at == {i \in 1..Len(PinnedNow) : SameAddress(PinnedNow[i])}
            ed == {i \in at : PinnedNow[i].keyType = "ssh-ed25519"}
            rsa == {i \in at : PinnedNow[i].keyType = "ssh-rsa"}
        IN /\ tgot = Undef <=> at = {}
           /\ at # {} =>
               tgot = Some(PinnedNow[IF ed # {} THEN MinOf(ed)
                                     ELSE IF rsa # {} THEN MinOf(rsa)
                                     ELSE MinOf(at)])

\* the ssh-ed25519 entry was returned although entries of other algorithms
\* stand before it in the file
C20_Witness ==
    /\ top = "get"
    /\ tgot # Undef
    /\ tgot[1].keyType = "ssh-ed25519"
    /\ \E i \in 1..Len(PinnedNow) :
        /\ PinnedNow[i] = tgot[1]
        /\ \E j \in 1..(i - 1) :
            SameAddress(PinnedNow[j]) /\ PinnedNow[j].keyType = "ssh-rsa"

\* ------------------------------------------------------------------------
\* Properties of formatKnownHosts and parseKnownHosts
\* ------------------------------------------------------------------------

\* a host in the bracket form of known_hosts: [name]:digits
BracketForm(host) ==
    /\ Len(host) >= 5
    /\ host[1] = "["
    /\ \E c \in 3..(Len(host) - 2) :
        /\ \A i \in 2..(c - 1) : host[i] # "]"
        /\ host[c] = "]"
        /\ host[c + 1] = ":"
        /\ \A i \in (c + 2)..Len(host) : host[i] \in DigitChars

\* the entries the round-trip law speaks of
InLawDomain(e) ==
    /\ \A i \in 1..Len(e.host) : e.host[i] # " "
    /\ ~BracketForm(e.host)

PortText(p) == IF p = 23 THEN <<"2", "3">> ELSE <<"2", "2">>

\* the host token the law expects on the line of an entry
ExpectedHostToken(e) ==
    IF e.port = 22 THEN e.host
    ELSE <<"[">> \o e.host \o <<"]", ":">> \o PortText(e.port)

\* what C21 says of the last composition
RoundTripLaw ==
    /\ rtKind = "entries" =>
        /\ rtOut = rtIn
        /\ \A i \in 1..Len(rtIn) :
            rtText[i] = ExpectedHostToken(rtIn[i])
                          \o <<" ", rtIn[i].keyType, " ", rtIn[i].key>>
    /\ rtKind = "text" => rtAgain = rtText

\* C21: for every list of entries whose hosts are free of whitespace and
\* not in bracket form, parseKnownHosts(formatKnownHosts(entries)) equals
\* entries, port 22 written as the bare host and any other port as
\* [host]:port; and for every text s, formatKnownHosts(parseKnownHosts(s))
\* is a fixed point of that composition
C21_RoundTrip ==
    (rtKind = "entries" => \A i \in 1..Len(rtIn) : InLawDomain(rtIn[i]))
        => RoundTripLaw

\* a host token that a reader takes for the start of a comment
HashHost(host) == Len(host) > 0 /\ host[1] = "#"

\* the part of C21 the code keeps: the same, for entries whose host does not
\* begin with '#' and texts in which no bracket form holds such a host
C21_HoldsWithoutHashHosts ==
    (/\ rtKind = "entries" =>
            \A i \in 1..Len(rtIn) : InLawDomain(rtIn[i]) /\ ~HashHost(rtIn[i].host)
     /\ rtKind = "text" =>
            \A i \in 1..Len(parseKnownHosts(rtIn)) :
                ~HashHost(parseKnownHosts(rtIn)[i].host))
        => RoundTripLaw

\* a list with a default-port and an other-port entry came back unchanged
C21_EntriesWitness ==
    /\ rtKind = "entries"
    /\ Len(rtIn) = 2
    /\ rtIn[1].port = 22 /\ rtIn[2].port = 23
    /\ rtOut = rtIn
    /\ rtText[2][1] = "["

\* a text with a comment and a zero-padded port was brought to its
\* canonical form
C21_TextWitness ==
    /\ rtKind = "text"
    /\ rtIn # rtText \o <<>>
    /\ Len(parseKnownHosts(rtIn)) = 1
    /\ Len(rtIn) = 2
    /\ rtAgain = rtText

\* ------------------------------------------------------------------------
\* Properties of the plan builder
\* ------------------------------------------------------------------------

\* the target version and the force flag the caller asked for
VersionAsked == IF buildArgs.version = Undef THEN "latest" ELSE buildArgs.version[1]

ForceAsked == IF buildArgs.force = Undef THEN FALSE ELSE buildArgs.force[1]

\* the steps of the built plan that carry an id
StepsNamed(id) == {i \in 1..Len(built[1].steps) : built[1].steps[i].id = id}

NeverSkipped == {"create-config-dir", "start-service", "verify-service"}

\* C22: in a built plan, on every fact sheet, install-node skips iff hasNode;
\* install-raven skips iff force is false, the agent is installed and the
\* target version is "latest" or the installed one; install-service skips
\* iff force is false and hasService; the other three steps never skip
C22_SkipPredicates ==
    built # Undef =>
        \A i \in 1..Len(built[1].steps), info \in PlanFacts :
            LET step == built[1].steps[i]
                skips == SkipIf(step, info)
            IN /\ step.id = "install-node" => (skips <=> info.hasNode)
               /\ step.id = "install-raven" =>
                      (skips <=> (/\ ~ForceAsked
                                  /\ info.hasRaven
                                  /\ \/ VersionAsked = "latest"
                                     \/ info.ravenVersion = Some(VersionAsked)))
               /\ step.id = "install-service" =>
                      (skips <=> (~ForceAsked /\ info.hasService))
               /\ step.id \in NeverSkipped => ~skips

\* a plan for a pinned version on a node that has that version but no
\* Node.js: install-raven skips on its fact sheet, install-node does not
C22_Witness ==
    /\ built # Undef
    /\ buildArgs.version = Some("1.2.3")
    /\ ~ForceAsked
    /\ buildArgs.nodeInfo.ravenVersion = Some("1.2.3")
    /\ buildArgs.nodeInfo.hasRaven
    /\ ~buildArgs.nodeInfo.hasNode
    /\ \E i \in StepsNamed("install-raven") :
        SkipIf(built[1].steps[i], built[1].nodeInfo)
    /\ \E i \in StepsNamed("install-node") :
        ~SkipIf(built[1].steps[i], built[1].nodeInfo)

\* C23: in a built plan a step is skippable whenever its skip predicate can
\* be true: install-raven and install-service are skippable iff force is
\* false, install-node is skippable, the three other steps are not
C23_SkippableFlags ==
    built # Undef =>
        \A i \in 1..Len(built[1].steps) :
            LET step == built[1].steps[i]
            IN /\ (\E info \in PlanFacts : SkipIf(step, info)) => step.skippable
               /\ step.id \in {"install-raven", "install-service"} =>
                      (step.skippable <=> ~ForceAsked)
               /\ step.id = "install-node" => step.skippable
               /\ step.id \in NeverSkipped => ~step.skippable

\* force=true on a fact sheet that reports the target version installed:
\* install-raven is not skippable
C23_Witness ==
    /\ built # Undef
    /\ buildArgs.force = Some(TRUE)
    /\ buildArgs.version = Some("1.2.3")
    /\ buildArgs.nodeInfo.hasRaven
    /\ buildArgs.nodeInfo.ravenVersion = Some("1.2.3")
    /\ \E i \in StepsNamed("install-raven") : ~built[1].steps[i].skippable

SixSteps ==
    <<"install-node", "install-raven", "create-config-dir", "install-service",
      "start-service", "verify-service">>

\* C24: for darwin and for linux buildBootstrapPlan returns a plan of the
\* six steps in their fixed order, whatever else the fact sheet says, with
\* the target version defaulting to "latest" and force to false; for an
\* unknown OS it throws and returns no plan
C24_SixStepsInOrder ==
    bppc # "idle" =>
        IF buildArgs.nodeInfo.os \in {"darwin", "linux"}
        THEN /\ bppc = "built"
             /\ built # Undef
             /\ [i \in 1..Len(built[1].steps) |-> built[1].steps[i].id] = SixSteps
             /\ built[1].targetVersion = VersionAsked
             /\ built[1].force = ForceAsked
             /\ built[1].nodeInfo = buildArgs.nodeInfo
        ELSE bppc = "threw" /\ built = Undef

\* a plan for linux built without options
C24_Witness ==
    /\ bppc = "built"
    /\ buildArgs.nodeInfo.os = "linux"
    /\ buildArgs.version = Undef
    /\ buildArgs.force = Undef
    /\ built[1].targetVersion = "latest"
    /\ Len(built[1].steps) = 6

\* the steps formatPlan marked [SKIP]
MarkedSkip == {i \in 1..Len(marks[1]) : marks[1][i]}

\* the steps the executor recorded as skipped
RecordedSkipped ==
    {stepResults[k].step : k \in {j \in 1..Len(stepResults) :
                                     stepResults[j].status = "skipped"}}

\* C25: the steps formatPlan marks [SKIP] are the steps the executor records
\* as skipped when it runs the same plan to completion, and until then the
\* skipped steps recorded so far are marked ones; formatPlan changes neither
\* the plan nor a store
C25_FormatMatchesExecutor ==
    /\ [](marks # Undef =>
            /\ Len(marks[1]) = Len(built[1].steps)
            /\ RecordedSkipped \subseteq MarkedSkip
            /\ (xpc = "done" /\ xres = "success") => RecordedSkipped = MarkedSkip
            /\ \A k \in 1..Len(stepResults) :
                stepResults[k].step \in MarkedSkip => stepResults[k].status = "skipped")
    /\ [][marks' # marks =>
            /\ built' = built
            /\ plan' = plan
            /\ file' = file
            /\ kh' = kh
            /\ khFile' = khFile]_vars

\* a rendered plan with a marked and an unmarked skippable step ran to its
\* end
C25_Witness ==
    /\ marks # Undef
    /\ xpc = "done"
    /\ xres = "success"
    /\ ~dryRun
    /\ \E i, j \in 1..Len(marks[1]) :
        /\ marks[1][i]
        /\ ~marks[1][j]
        /\ built[1].steps[j].skippable
    /\ RecordedSkipped # {}

\* ------------------------------------------------------------------------
\* Properties of the status check
\* ------------------------------------------------------------------------

\* the lines of a text
RECURSIVE LinesOf(_)
LinesOf(text) ==
    IF IndexOf(text, "\n") = 0 THEN <<text>>
    ELSE <<SubSeq(text, 1, IndexOf(text, "\n") - 1)>>
         \o LinesOf(SubSeq(text, IndexOf(text, "\n") + 1, Len(text)))

\* what follows a marker on the lines of a text that carry it
AfterMarker(text, marker) ==
    {SubSeq(LinesOf(text)[k], 2, Len(LinesOf(text)[k])) :
        k \in {n \in 1..Len(LinesOf(text)) :
                  LinesOf(text)[n] # <<>> /\ LinesOf(text)[n][1] = marker}}

LastDiagCall == dcalls[Len(dcalls)]

\* C26: runNodeDiagnostics always returns a record: offline with a timed-out
\* error for a timed-out result, offline with stderr or an exit-code message
\* for a non-zero exit whose stdout lacks DIAG_START, and online for every
\* other result, with serviceStatus running or stopped from the SERVICE line
\* (unknown when there is none), serviceRunning exactly when it is running,
\* and no version when the VERSION line is absent or says NOT_FOUND
C26_Classifies ==
    /\ dpc \in {"idle", "done"}
    /\ dpc = "done" =>
        LET c == LastDiagCall
            services == AfterMarker(c.stdout, "SERVICE:") \cap {<<"running">>, <<"stopped">>}
            versions == AfterMarker(c.stdout, "VERSION:")
        IN /\ c.threw => ~diag.online /\ diag.error # Undef
           /\ ~c.threw /\ c.result.timedOut =>
                ~diag.online /\ diag.error = Some(<<"Connection timed out">>)
           /\ (/\ ~c.threw /\ ~c.result.timedOut
               /\ c.result.exitCode # Some(0)
               /\ \A i \in 1..Len(c.stdout) : c.stdout[i] # "DIAG_START") =>
                /\ ~diag.online
                /\ diag.error = Some(IF c.stderr # <<>> THEN c.stderr ELSE <<"SSH exit code">>)
           /\ (/\ ~c.threw /\ ~c.result.timedOut
               /\ \/ c.result.exitCode = Some(0)
                  \/ \E i \in 1..Len(c.stdout) : c.stdout[i] = "DIAG_START") =>
                /\ diag.online
                /\ diag.error = Undef
                /\ \A v \in services : diag.serviceStatus = v[1]
                /\ services = {} => diag.serviceStatus = "unknown"
                /\ diag.serviceRunning <=> diag.serviceStatus = "running"
                /\ versions \subseteq {<<"NOT_", "FOUND">>} => diag.version = Undef

\* a non-zero exit after the marker, classified online with a stopped service
\* and no version
C26_Witness ==
    /\ dpc = "done"
    /\ ~LastDiagCall.threw
    /\ ~LastDiagCall.result.timedOut
    /\ LastDiagCall.result.exitCode # Some(0)
    /\ diag.online
    /\ diag.serviceStatus = "stopped"
    /\ diag.version = Undef

\* the record the inventory holds for the node that was checked
StoredAfterStatus == getNode(file, snode[1].name)[1]

StatusChecked == spc = "done" /\ snode # Undef /\ dpc = "done"

\* C27: after a status check that classified the node online its stored
\* record carries the probe's lastSeen and the probe's service status,
\* running or stopped, whether the command or the gateway handler ran the
\* check; the record of a node classified offline is left as it was
C27_StatusStored ==
    StatusChecked =>
        /\ diag.online =>
            /\ StoredAfterStatus.lastSeen = diag.lastSeen
            /\ diag.serviceStatus \in {"running", "stopped"} =>
                StoredAfterStatus.serviceStatus = Some(diag.serviceStatus)
        /\ ~diag.online => file = fileAtStart

\* C27, the part the code keeps: lastSeen of an online node is stored, and
\* nothing else of the inventory changes; an offline node is left as it was
C27_LastSeenStored ==
    StatusChecked =>
        /\ diag.online =>
            file = updateNode(fileAtStart, snode[1].name,
                              [NoUpdates EXCEPT !.lastSeen = diag.lastSeen])
        /\ diag.online => StoredAfterStatus.lastSeen = Some("now")
        /\ ~diag.online => file = fileAtStart

\* a check through the gateway found the service running and stored lastSeen
C27_OnlineWitness ==
    /\ StatusChecked
    /\ svia = "gateway"
    /\ diag.online
    /\ diag.serviceStatus = "running"
    /\ StoredAfterStatus.lastSeen = Some("now")
    /\ file # fileAtStart

\* a check through the command found the node offline
C27_OfflineWitness ==
    /\ StatusChecked
    /\ svia = "cli"
    /\ ~diag.online
    /\ file = fileAtStart

\* ------------------------------------------------------------------------
\* Properties of lookup, validation and the duplicate check of the store
\* ------------------------------------------------------------------------

\* the names getNode is asked for
LookupNames == {<<"a">>, <<"A">>, <<"b">>, <<"B">>, <<"1">>}

\* names with blanks around them, which no stored record has
PaddedNames == {<<" ", "a">>, <<"B", " ">>}

\* two names that differ in the case of their letters at most
SameIgnoringCase(x, y) ==
    /\ Len(x) = Len(y)
    /\ \A i \in 1..Len(x) : LowerOf(x[i]) = LowerOf(y[i])

StoredNames == {file.nodes[i].name : i \in 1..Len(file.nodes)}

\* C28: get with any case variant of the name of a node that add stored
\* returns that record, and get returns null for every name that matches no
\* stored record case-insensitively
C28_GetAnyCase ==
    /\ \A i \in 1..Len(file.nodes) : \A v \in LookupNames :
        SameIgnoringCase(v, file.nodes[i].name) =>
            getNode(file, v) = Some(file.nodes[i])
    /\ \A v \in LookupNames :
        (\A n \in StoredNames : ~SameIgnoringCase(v, n)) => getNode(file, v) = Undef

\* C28, as far as the code keeps it: while every stored record passes
\* FleetNodeSchema, every case variant finds the record and a name that
\* matches no stored name finds nothing; a name with blanks around it finds
\* what the name without them finds
C28_HoldsForSchemaFiles ==
    FleetStoreSchema(file.nodes) =>
        /\ \A i \in 1..Len(file.nodes) : \A v \in LookupNames :
            SameIgnoringCase(v, file.nodes[i].name) =>
                getNode(file, v) = Some(file.nodes[i])
        /\ \A v \in LookupNames :
            (\A n \in StoredNames : ~SameIgnoringCase(v, n)) =>
                getNode(file, v) = Undef
        /\ \A v \in PaddedNames : getNode(file, v) = getNode(file, Trim(v))

\* an add stored node "b", and get finds it as "B" and finds nothing as "a"
C28_Witness ==
    /\ \E i \in 1..Len(file.nodes) :
        /\ file.nodes[i].name = <<"b">>
        /\ file.nodes[i].id >= 1
        /\ getNode(file, <<"B">>) = Some(file.nodes[i])
    /\ getNode(file, <<"a">>) = Undef

\* the inputs of add the claim calls invalid
InvalidAdd(o) ==
    \/ o.name = <<>>
    \/ \E i \in 1..Len(o.name) : o.name[i] \notin NameChars
    \/ Len(o.name) > MaxNameLen
    \/ o.host = <<>>
    \/ (o.host # <<>> /\ o.host[1] = "-")
    \/ o.port \notin 1..MaxPort
    \/ o.user = <<>>

\* the inputs of update the claim calls invalid
InvalidUpdate(u) ==
    \/ (u.host # Undef /\ (u.host[1] = <<>> \/ (u.host[1] # <<>> /\ u.host[1][1] = "-")))
    \/ (u.port # Undef /\ u.port[1] \notin 1..MaxPort)
    \/ (u.user # Undef /\ u.user[1] = <<>>)

\* C29: add with an invalid name, host, port or account name, and update
\* with an invalid host, port or account name, fail before any I/O: the
\* operation is over at once, no lock is taken and the inventory file is
\* neither created nor modified
C29_InvalidFailsBeforeIO ==
    /\ [](/\ \A o \in AddInputs : InvalidAdd(o) => ~ValidOp(o)
          /\ \A o \in UpdateInputs : InvalidUpdate(o.updates) => ~ValidOp(o)
          /\ \A p \in Procs : res[p] = "invalid" => pc[p] = "done")
    /\ [][\A p \in Procs :
            (/\ res'[p] = "invalid"
             /\ res[p] # "invalid" \/ opsDone' # opsDone) =>
                /\ file' = file
                /\ lock' = lock
                /\ lockAge' = lockAge]_vars

\* an invalid call has failed, and there is still no inventory file and no
\* lock
C29_Witness ==
    /\ \E p \in Procs : res[p] = "invalid" /\ pc[p] = "done"
    /\ ~file.exists
    /\ lock = NoProc
    /\ \E o \in AddInputs : InvalidAdd(o)
    /\ \E o \in UpdateInputs : InvalidUpdate(o.updates)

\* the process is inside fn or the finally of withFileLock, so its
\* lockfile.lock has returned
HasAcquired(p) == pc[p] \in {"read", "write", "release"}

\* C30: a duplicate-name conflict on add is detected before any lock
\* activity: an add that fails with the duplicate-name error has not
\* acquired the inventory lock
C30_DuplicateBeforeLock ==
    \A p \in Procs : res[p] = "duplicate" => ~HasAcquired(p) /\ lock # p

\* C30 as amended: the conflict is detected inside the locked section: the
\* add took the lock before it read the inventory, fails with the
\* duplicate-name error exactly when the store it read holds a name that
\* matches case-insensitively, writes nothing from that read on and releases
\* the lock on its way out
C30_DuplicateUnderLock ==
    /\ [][\A p \in Procs : (pc'[p] = "read" /\ pc[p] # "read") => lock' = p]_vars
    /\ [][\A p \in Procs :
            (pc[p] = "read" /\ op[p].kind = "add" /\ pc'[p] # "read") =>
                /\ res'[p] = "duplicate" <=>
                    \E i \in 1..Len(ReadStore(file)) :
                        SameIgnoringCase(Trim(ReadStore(file)[i].name), Trim(op[p].name))
                /\ res'[p] = "duplicate" => file' = file /\ pc'[p] = "release"]_vars
    /\ [][\A p \in Procs :
            (res[p] = "duplicate" /\ pc[p] = "release" /\ pc'[p] # "release") =>
                /\ file' = file
                /\ pc'[p] = "done"
                /\ lock = p => lock' = NoProc]_vars

\* an add has just found its name in the inventory, holding the lock
C30_Witness ==
    \E p \in Procs :
        /\ res[p] = "duplicate"
        /\ pc[p] = "release"
        /\ lock = p
        /\ op[p].kind = "add"

\* ------------------------------------------------------------------------
\* Properties of the inventory file on disk (DiskSpec)
\* ------------------------------------------------------------------------

\* a record as the schema wants it: name, host, port and user in range
GoodRecord(n) ==
    /\ n.name # <<>> /\ Len(n.name) <= MaxNameLen
    /\ \A i \in 1..Len(n.name) : n.name[i] \in NameChars
    /\ n.host # <<>> /\ n.host[1] # "-"
    /\ n.port \in 1..MaxPort
    /\ n.user # <<>>

\* the inventory file is missing, unreadable, no valid JSON, fails the
\* schema, or carries a schema version other than 1
BadDisk(d) ==
    \/ d.kind \in {"missing", "unreadable", "text", "partial", "null"}
    \/ d.schemaVersion # Some(1)
    \/ \E i \in 1..Len(d.nodes) : ~GoodRecord(d.nodes[i])

\* C31: load never raises: for an inventory file that is missing,
\* unreadable, not valid JSON, fails schema validation or has a schema
\* version other than 1, load returns the empty inventory with schema
\* version 1, list returns no node and get returns null; no reader creates
\* or modifies the file or its directory
C31_LoadNeverRaises ==
    /\ [](/\ lpc \in {"idle", "done"}
          /\ (lpc = "done" /\ BadDisk(lseen)) =>
                /\ lfn.fn = "load" =>
                    lgot.store = Some([schemaVersion |-> Some(1), nodes |-> <<>>])
                /\ lfn.fn = "list" => lgot.nodes = Some(<<>>)
                /\ lfn.fn = "get" => lgot.node = Undef
          /\ (lpc = "done" /\ ~BadDisk(lseen)) =>
                /\ lfn.fn = "load" =>
                    lgot.store = Some([schemaVersion |-> Some(1), nodes |-> lseen.nodes])
                /\ lfn.fn = "list" => lgot.nodes = Some(lseen.nodes))
    /\ [][(lgot' # lgot \/ lfn' # lfn \/ lseen' # lseen \/ lpc' # lpc) =>
            (disk' = disk /\ dir' = dir /\ tmpf' = tmpf /\ lseen' = disk)]_vars

\* load has met a file of schema version 2 that holds node "a", returned
\* the empty inventory, and there is still no fleet directory
C31_Witness ==
    /\ lpc = "done"
    /\ lfn.fn = "load"
    /\ lseen.kind = "json" /\ lseen.schemaVersion = Some(2) /\ Len(lseen.nodes) = 1
    /\ GoodRecord(lseen.nodes[1])
    /\ lgot.store = Some(EmptyFleetStore)
    /\ disk = lseen
    /\ ~dir

\* C32: a reader that runs beside any writer sees the inventory as it was
\* before a write or whole after it, never a partially written file: the
\* inventory path changes only by the rename of a temporary file that has
\* been written in full
C32_RenameOnlyPublish ==
    /\ [](disk.kind # "partial" /\ lseen.kind # "partial")
    /\ [][disk' # disk =>
            \E w \in Writers :
                /\ wpc[w] = "rename" /\ wpc'[w] = "done"
                /\ tmpf[w] = JsonFile(wval[w])
                /\ disk' = JsonFile(wval[w])]_vars
    /\ [][lseen' # lseen => (lseen' = disk /\ disk' = disk)]_vars

\* one writer has published node "b", the other has written part of its
\* temporary file, and a reader has read the published inventory
C32_Witness ==
    /\ \E w \in Writers :
        /\ wpc[w] = "done"
        /\ disk = JsonFile(wval[w])
        /\ Len(disk.nodes) = 1
    /\ \E w \in Writers : tmpf[w].kind = "partial"
    /\ lpc = "done"
    /\ lfn.fn = "list"
    /\ lseen = disk
    /\ lgot.nodes = Some(disk.nodes)

\* ------------------------------------------------------------------------
\* Properties of updateNode and of the files the store publishes
\* ------------------------------------------------------------------------

\* the fields an UpdateNodeInput can carry
UpdateFields ==
    {"host", "port", "user", "trusted", "os", "arch", "installed", "lastSeen",
     "serviceStatus"}

\* the records of the file whose name is the given one, case aside
Matching(nodes, name) ==
    {i \in 1..Len(nodes) : SameIgnoringCase(Trim(nodes[i].name), Trim(name))}

\* what the locked read of an update may do to the store it is about to
\* write: identifier and name of the matched record, every field the input
\* does not supply, every other record and the order stay as they are
FrameKept(p) ==
    (pc[p] = "read" /\ op[p].kind = "update" /\ pc'[p] = "write") =>
        /\ Len(snap'[p]) = Len(file.nodes)
        /\ \A i \in 1..Len(file.nodes) :
            IF i \in Matching(file.nodes, op[p].name)
            THEN /\ snap'[p][i].id = file.nodes[i].id
                 /\ snap'[p][i].name = file.nodes[i].name
                 /\ \A f \in UpdateFields :
                        op[p].updates[f] = Undef => snap'[p][i][f] = file.nodes[i][f]
            ELSE snap'[p][i] = file.nodes[i]

\* an update that finds no record of its name returns null
NullWhenUnmatched(p) ==
    (/\ pc[p] = "read" /\ op[p].kind = "update" /\ pc'[p] # "read"
     /\ Matching(file.nodes, op[p].name) = {}) =>
        /\ res'[p] = "null"
        /\ pc'[p] = "release"
        /\ file' = file

\* the write of an update publishes the store of its locked read
WritesSnapshot(p) ==
    (pc[p] = "write" /\ op[p].kind = "update" /\ pc'[p] # "write") =>
        file' = FileOf(snap[p])

\* C33: update never changes the matched record's identifier or name,
\* leaves every field the input does not supply, every other record and the
\* order unchanged, and returns null without writing the file when no
\* record matches the name case-insensitively
C33_UpdateFrame ==
    /\ [][\A p \in Procs : FrameKept(p) /\ NullWhenUnmatched(p) /\ WritesSnapshot(p)]_vars
    /\ [](\A p \in Procs : res[p] = "null" => ~wrote[p])

\* C33, as far as the code keeps it: the frame of the merge, and null with
\* the records left alone from the locked read on
C33_FrameOfMerge ==
    [][\A p \in Procs : FrameKept(p) /\ NullWhenUnmatched(p) /\ WritesSnapshot(p)]_vars

\* an update has changed lastSeen of node "a" and nothing else
C33_MergedWitness ==
    /\ \E p \in Procs : op[p].kind = "update" /\ res[p] = "ok" /\ pc[p] = "release"
    /\ Len(file.nodes) = 1
    /\ file.nodes[1].lastSeen = Some("now")
    /\ file.nodes[1] = [NewNode(0, AddOp(<<"a">>, <<"h">>, DefaultPort, <<"u">>))
                            EXCEPT !.lastSeen = Some("now")]

\* an update has returned null
C33_NullWitness ==
    \E p \in Procs : res[p] = "null" /\ pc[p] = "release" /\ ~wrote[p]

\* ------------------------------------------------------------------------
\* Properties of the operator's commands (OnboardSpec)
\* ------------------------------------------------------------------------

\* a ping that pinned or verified the host key and whose command exited 0
PingSucceeded(status, r) ==
    r = "ok" /\ status \in {"new", "changed", "verified"}

Trusted(name) ==
    getNode(file, name) # Undef /\ getNode(file, name)[1].trusted

\* C34: once a ping of a node added with trusted = false has pinned or
\* verified the host key and its remote command has exited zero, the node's
\* trusted flag is true, and a following bootstrap of that node is not
\* refused as untrusted
C34_PingMakesBootstrappable ==
    /\ (ppc = "done" /\ PingSucceeded(hostKeyStatus, pres)) => Trusted(pname)
    /\ (pings > 0 /\ PingSucceeded(prev.status, prev.res))
            => (Trusted(prev.name) /\ bcmd # "refused")

\* ------------------------------------------------------------------------
\* Properties of the files a successful mutation publishes (Spec)
\* ------------------------------------------------------------------------

\* process p publishes the file of its add, update or remove in this step
Publishes(p) == pc[p] = "write" /\ pc'[p] # "write"

\* the names list returns for the inventory file f
ListedNames(f) == {ReadStore(f)[i].name : i \in 1..Len(ReadStore(f))}

\* C35: every inventory file published by a successful add, update or
\* remove passes the schema validation of load, so every record that list
\* returned before the mutation, other than the one it removes, is still
\* returned by list and by get after it
C35_PublishedFilesLoad ==
    [][\A p \in Procs : Publishes(p) =>
        /\ FleetStoreSchema(file'.nodes)
        /\ \A n \in ListedNames(file) :
            \/ /\ op[p].kind = "remove"
               /\ normalizeNodeName(n) = normalizeNodeName(op[p].name)
            \/ /\ n \in ListedNames(file')
               /\ getNode(file', n) # Undef]_vars

\* ------------------------------------------------------------------------
\* Properties of the first contact of ping (PingSpec)
\* ------------------------------------------------------------------------

\* ping found the node and no entry pinned for its host and port
FirstContact == pnode # Undef /\ existingKey = Undef

\* the keys the scan of this ping discovered
Discovered == parseKeyscanOutput(scan.output, pnode[1].host, pnode[1].port)

\* the trust store after pinHostKey of every key of keys, in order
RECURSIVE PinAll(_, _)
PinAll(entries, keys) ==
    IF keys = <<>> THEN entries
    ELSE PinAll(pinHostKey(entries, Head(keys)), Tail(keys))

\* discovery exited non-zero, returned no output or yielded no parsable key
DiscoveryUseless ==
    \/ scan.exitCode # Some(0)
    \/ OutputBlank(scan.output)
    \/ Discovered = <<>>

\* C36: on first contact ping runs key discovery and pins every discovered
\* key before it executes the remote command; if discovery exits non-zero,
\* returns no output or yields no parsable key, ping ends with a failure,
\* has pinned nothing and has executed no remote command
C36_FirstContactPinsAll ==
    FirstContact =>
        /\ ppc \in {"scan", "pin"} => sshCalls = <<>>
        /\ (ppc \in {"pin", "exec", "done"} /\ DiscoveryUseless) =>
            /\ ppc = "done" /\ pres = "failed"
            /\ kh = khAtStart
            /\ sshCalls = <<>>
        /\ (ppc \in {"exec", "done"} /\ ~DiscoveryUseless) =>
            /\ hostKeyStatus = "new"
            /\ toPin = <<>>
            /\ kh = PinAll(khAtStart, Discovered)
            /\ \A i \in 1..Len(Discovered) : \E j \in 1..Len(kh) :
                /\ kh[j].host = Discovered[i].host
                /\ kh[j].port = Discovered[i].port
                /\ kh[j].keyType = Discovered[i].keyType
        /\ sshCalls # <<>> => (~DiscoveryUseless /\ kh = PinAll(khAtStart, Discovered))

\* a first contact discovered two keys, pinned both and ran the command
C36_Witness ==
    /\ FirstContact /\ ppc = "done" /\ pres = "ok"
    /\ Len(Discovered) = 2 /\ Discovered[1].keyType # Discovered[2].keyType
    /\ Len(kh) = Len(khAtStart) + 2
    /\ Len(sshCalls) = 1

\* a first contact whose discovery printed nothing it could parse has ended
C36_AbortWitness ==
    /\ FirstContact /\ ppc = "done" /\ pres = "failed"
    /\ scan.exitCode = Some(0) /\ ~OutputBlank(scan.output) /\ Discovered = <<>>

\* ------------------------------------------------------------------------
\* Properties of a ping after a re-pin (OnboardSpec)
\* ------------------------------------------------------------------------

\* the ping before this one found the key changed and pinned the keys it
\* discovered, as the override flag told it to
RePinned == pings > 0 /\ prev.status = "changed" /\ prev.pinned # <<>>

\* the entry of the trust store is one of the keys the ping before pinned
IsPinnedKey(e) ==
    \E i \in 1..Len(prev.pinned) :
        prev.pinned[i].keyType = e.keyType /\ prev.pinned[i].key = e.key

\* C37: after ping has re-pinned with the override flag, the entry that
\* getHostKey surfaces for the host and port is one of the newly discovered
\* keys, and the next ping of the node, without the flag and against the
\* same remote keys, is reported verified and is not rejected as changed
C37_RePinVerifiesNext ==
    /\ (RePinned /\ ppc = "idle") =>
        /\ getHostKey(kh, <<"h">>, DefaultPort) # Undef
        /\ IsPinnedKey(getHostKey(kh, <<"h">>, DefaultPort)[1])
    /\ (/\ RePinned /\ pnode # Undef /\ pname = prev.name
        /\ ~trustHostKeyChange
        /\ ppc \in {"pin", "exec", "done"}
        /\ scan.exitCode = Some(0)
        /\ Discovered = prev.pinned)
            => (hostKeyStatus = "verified" /\ (ppc = "done" => pres # "none"))

\* ------------------------------------------------------------------------
\* Properties of two concurrent pinHostKey calls (PinnersSpec)
\* ------------------------------------------------------------------------

\* the two processes pin entries of different (host, port, key type)
DifferentTuples ==
    \A q, r \in Pinners :
        q # r => ~(/\ qent[q].host = qent[r].host
                  /\ qent[q].port = qent[r].port
                  /\ qent[q].keyType = qent[r].keyType)

\* the trust store holds the entry
Present(e) ==
    \E i \in 1..Len(loadKnownHosts(qfile)) : loadKnownHosts(qfile)[i] = e

BothPinned == \A q \in Pinners : qpc[q] = "done"

\* one of the two calls loaded the file after the save of the other
OneAfterTheOther == \E q \in Pinners : qafter[q] # {}

C38_SerialWitness ==
    /\ BothPinned /\ DifferentTuples /\ OneAfterTheOther
    /\ qent["q1"].host = qent["q2"].host /\ qent["q1"].port = qent["q2"].port
    /\ \A q \in Pinners : Present(qent[q])

\* ------------------------------------------------------------------------
\* Properties of the service query of preflight (CliSpec)
\* ------------------------------------------------------------------------

\* the service query printed the negative sentinel
PrintedNotFound == Includes(serviceOut[1], <<"NOT_", "FOUND">>)

\* C39: on a darwin node hasService is true only when the service query
\* reports the service found: when the query prints NOT_FOUND the fact
\* sheet has hasService = false and serviceRunning = false, and the
\* running-state query is sent only if the service was found
C39_DarwinNotFound ==
    (nodeInfo.os = "darwin" /\ serviceOut # Undef) =>
        /\ PrintedNotFound =>
            (~nodeInfo.hasService /\ ~nodeInfo.serviceRunning /\ bpc # "running")
        /\ nodeInfo.hasService =>
            (Includes(serviceOut[1], <<"FOUND">>) /\ ~PrintedNotFound)
        /\ bpc = "running" => nodeInfo.hasService

\* ------------------------------------------------------------------------
\* Properties of the commands of one step (ExecSpec)
\* ------------------------------------------------------------------------

\* the command exited non-zero or timed out
ExitedBadly(c) == c.result.exitCode # Some(0) \/ c.result.timedOut

\* the status executeStep gave step s, "none" while it has none
StatusOf(s) ==
    LET hits == {i \in 1..Len(stepResults) : stepResults[i].step = s}
    IN IF hits = {} THEN "none" ELSE stepResults[CHOOSE i \in hits : TRUE].status

\* C40: within one step the commands are sent one at a time in list order;
\* the first command that exits non-zero or times out makes the step failed
\* (a command that timed out never leaves a step a success), and the
\* remaining commands of that step are not sent
C40_StepStopsAtFirstFailure ==
    /\ \A i \in 1..Len(sent) :
        /\ sent[i].cmd \in 1..plan.steps[sent[i].step].ncmds
        /\ IF i > 1 /\ sent[i - 1].step = sent[i].step
           THEN sent[i].cmd = sent[i - 1].cmd + 1 /\ ~ExitedBadly(sent[i - 1])
           ELSE sent[i].cmd = 1
        /\ ExitedBadly(sent[i]) =>
            /\ StatusOf(sent[i].step) = "failed"
            /\ \A j \in 1..Len(sent) : sent[j].step = sent[i].step => j <= i
        /\ StatusOf(sent[i].step) = "success" => ~ExitedBadly(sent[i])
        /\ StatusOf(sent[i].step) = "success" =>
            \E j \in 1..Len(sent) :
                /\ sent[j].step = sent[i].step
                /\ sent[j].cmd = plan.steps[sent[i].step].ncmds
    /\ \A k \in 1..Len(stepResults) :
        stepResults[k].status = "failed" =>
            \E i \in 1..Len(sent) :
                sent[i].step = stepResults[k].step /\ ExitedBadly(sent[i])

\* the first of the two commands of a step was killed by the timer just as
\* it exited with 0: the step has failed and the second command was not sent
C40_Witness ==
    \E i \in 1..Len(sent) :
        /\ plan.steps[sent[i].step].ncmds = 2
        /\ sent[i].cmd = 1
        /\ sent[i].result = [exitCode |-> Some(0), timedOut |-> TRUE]
        /\ StatusOf(sent[i].step) = "failed"
        /\ i = Len(sent)
        /\ xpc = "done"

====
